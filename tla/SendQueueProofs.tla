-------------------------- MODULE SendQueueProofs --------------------------
(***************************************************************************)
(* For any sockets, packet classes, message lengths and pool sizes, and any *)
(* order of sends and completions.  A pool that frees out of the order it  *)
(* lent in gives a packet out twice (SendQueue_shared), and what follows   *)
(* then is what the run shows; the states before that are Sound, and in    *)
(* those nothing is lost, doubled or reordered, every packet comes back,   *)
(* no posted buffer changes, the queues are well formed, and a packet      *)
(* overflows by one header at most.  That a socket never has two sends     *)
(* outstanding, and a completion finds its packet, needs nothing of the    *)
(* pools.                                                                  *)
(***************************************************************************)
EXTENDS SendQueue, WellFoundedInduction, SequenceTheorems, FiniteSetTheorems, TLAPS

\* AllocPacket picks one of the classes whenever one fits.
LEMMA ClassOfFits ==
    ASSUME NEW len, Fitting(len) # {}
    PROVE  ClassOf(len) \in Classes /\ len <= ClassOf(len)
<1>1. Fitting(len) \subseteq Nat
  BY ClassesAssumption DEF Fitting
<1>2. \E c \in Fitting(len) : \A d \in Fitting(len) : ~(<<d, c>> \in OpToRel(<, Nat))
  BY <1>1, NatLessThanWellFounded, WFMin
<1>3. \E c \in Fitting(len) : \A d \in Fitting(len) : c <= d
  <2>1. \A c, d \in Nat : d < c => <<d, c>> \in OpToRel(<, Nat)
    BY Zenon DEF OpToRel
  <2>2. PICK c \in Fitting(len) : \A d \in Fitting(len) : ~(<<d, c>> \in OpToRel(<, Nat))
    BY <1>2
  <2>3. \A d \in Fitting(len) : ~(d < c)
    BY <1>1, <2>1, <2>2, Zenon
  <2> QED
    BY <1>1, <2>3
<1>4. ClassOf(len) \in Fitting(len)
  BY <1>3 DEF ClassOf
<1> QED
  BY <1>4 DEF Fitting

LEMMA InFlightInit == Init => InFlightInv
  BY DEF Init, InFlightInv

LEMMA InFlightStep ==
    ASSUME InFlightInv, [Next]_vars
    PROVE  InFlightInv'
<1> USE DEF queues, kernel, pools
<1>0. \A x : Len(<<x>>) = 1 /\ <<x>> # <<>> /\ Head(<<x>>) = x /\ Tail(<<x>>) = <<>> /\ Append(<<>>, x) = <<x>>
  OBVIOUS
<1>1. ASSUME NEW s \in Sockets, SendFirst(s) PROVE InFlightInv'
  <2>1. posted[s] = <<>> /\ completions[s] = 0 /\ filling[s].packet # Nil
    BY <1>1 DEF SendFirst, InFlightInv
  <2>2. \/ posted' = posted
        \/ \E x : posted' = [posted EXCEPT ![s] = Append(@, x)]
    BY <1>1 DEF SendFirst, Post
  <2>3. /\ sendingPacket' = [sendingPacket EXCEPT ![s] = filling[s].packet]
        /\ filling' = [filling EXCEPT ![s] = Nil]
        /\ UNCHANGED <<completions, used>>
    BY <1>1 DEF SendFirst
  <2> QED
    BY <1>0, <2>1, <2>2, <2>3 DEF InFlightInv
<1>2. ASSUME NEW s \in Sockets, SendQueued(s) PROVE InFlightInv'
  BY <1>2 DEF SendQueued, InFlightInv
<1>3. ASSUME NEW s \in Sockets, NEW len, NEW imm, SendAppend(s, len, imm)
      PROVE  InFlightInv'
  BY <1>3 DEF SendAppend, InFlightInv
<1>4. ASSUME NEW s \in Sockets, NEW len, NEW imm, SendAlloc(s, len, imm)
      PROVE  InFlightInv'
  <2>1. <<ClassOf(len), used[ClassOf(len)]>> # Nil
    BY <1>4, ClassOfFits, NilAssumption DEF SendAlloc, InFlightInv
  <2> QED
    BY <1>4, <2>1, ClassOfFits DEF SendAlloc, InFlightInv
<1>5. ASSUME NEW s \in Sockets, NEW len, NEW imm,
             SendAllocFull(s, len, imm) \/ SendTooLong(s, len, imm)
      PROVE  InFlightInv'
  BY <1>5 DEF SendAllocFull, SendTooLong, InFlightInv
<1>6. ASSUME NEW s \in Sockets, WriteCallback(s) PROVE InFlightInv'
  <2>1. posted[s] = <<>> /\ completions[s] = 1
    BY <1>6 DEF WriteCallback, InFlightInv
  <2>2. PICK next : /\ sendingPacket' = [sendingPacket EXCEPT ![s] = next]
                    /\ \/ posted' = posted
                       \/ next # Nil /\ \E x : posted' = [posted EXCEPT ![s] = Append(@, x)]
    <3>1. CASE mem[sendingPacket[s]].next = Nil
      BY <1>6, <3>1 DEF WriteCallback
    <3>2. CASE mem[sendingPacket[s]].next # Nil
      BY <1>6, <3>2 DEF WriteCallback, Post
    <3> QED
      BY <3>1, <3>2
  <2>3. completions' = [completions EXCEPT ![s] = 0] /\ UNCHANGED <<filling, used>>
    BY <1>6, <2>1 DEF WriteCallback
  <2> QED
    BY <1>0, <2>1, <2>2, <2>3 DEF InFlightInv
<1>7. ASSUME NEW s \in Sockets, FreePacket(s) PROVE InFlightInv'
  <2>1. PICK c : used' = [used EXCEPT ![c] = @ - 1]
    BY <1>7 DEF FreePacket
  <2>2. used' \in [Classes -> Int]
    <3>1. CASE c \in Classes
      <4>1. used[c] - 1 \in Int
        BY <3>1 DEF InFlightInv
      <4> QED
        BY <2>1, <4>1, Zenon DEF InFlightInv
    <3>2. CASE c \notin Classes
      BY <2>1, <3>2, Zenon DEF InFlightInv
    <3> QED
      BY <3>1, <3>2
  <2>3. UNCHANGED <<posted, completions, sendingPacket, filling>>
    BY <1>7 DEF FreePacket
  <2> QED
    BY <2>2, <2>3 DEF InFlightInv
<1>8. ASSUME NEW s \in Sockets, Transmit(s) PROVE InFlightInv'
  <2>1. PICK x : posted[s] = <<x>> /\ completions[s] = 0 /\ sendingPacket[s] # Nil
    BY <1>8 DEF Transmit, InFlightInv
  <2>2. /\ posted' = [posted EXCEPT ![s] = Tail(@)]
        /\ completions' = [completions EXCEPT ![s] = @ + 1]
        /\ UNCHANGED <<sendingPacket, filling, used>>
    BY <1>8 DEF Transmit
  <2> QED
    BY <1>0, <2>1, <2>2 DEF InFlightInv
<1>9. ASSUME NEW s \in Sockets, BreakConnection(s) PROVE InFlightInv'
  BY <1>9 DEF BreakConnection, InFlightInv
<1>10. ASSUME NEW s \in Sockets, FailPosted(s) PROVE InFlightInv'
  <2>1. PICK x : posted[s] = <<x>> /\ completions[s] = 0
    BY <1>10 DEF FailPosted, InFlightInv
  <2>2. posted' = [posted EXCEPT ![s] = Tail(@)] /\ UNCHANGED <<completions, sendingPacket, filling, used>>
    BY <1>10 DEF FailPosted
  <2> QED
    BY <1>0, <2>1, <2>2 DEF InFlightInv
<1>11. CASE UNCHANGED vars
  BY <1>11 DEF vars, InFlightInv
<1> QED
  BY <1>1, <1>2, <1>3, <1>4, <1>5, <1>6, <1>7, <1>8, <1>9, <1>10, <1>11
     DEF Next, Send, OnWriteCallback, Kernel

\* InFlightInv holds in every state, for every value of the constants.
THEOREM InFlightInvariant == Spec => []InFlightInv
<1>1. InFlightInv /\ [Next]_vars => InFlightInv'
  BY InFlightStep
<1> QED
  BY <1>1, InFlightInit, PTL DEF Spec

\* CallbackHasPacket: OnWriteCallback never finds _sendingPacket null, and no
\* socket has two sends outstanding, for every value of the constants.  The proof
\* uses nothing of the pools.
THEOREM CallbackFindsPacket == Spec => []CallbackHasPacket
<1>1. InFlightInv => CallbackHasPacket
  <2> SUFFICES ASSUME InFlightInv, NEW s \in Sockets
               PROVE  /\ Len(posted[s]) + completions[s] <= 1
                      /\ Len(posted[s]) + completions[s] = 1 => sendingPacket[s] # Nil
    BY DEF CallbackHasPacket
  <2>1. CASE posted[s] = <<>>
    BY <2>1 DEF InFlightInv
  <2>2. CASE posted[s] # <<>>
    <3>1. PICK x : posted[s] = <<x>> /\ completions[s] = 0 /\ sendingPacket[s] # Nil
      BY <2>2 DEF InFlightInv
    <3>2. Len(<<x>>) = 1
      OBVIOUS
    <3> QED
      BY <3>1, <3>2
  <2> QED
    BY <2>1, <2>2
<1> QED
  BY <1>1, InFlightInvariant, PTL

-----------------------------------------------------------------------------
(* What the queues and the pools look like                                 *)

\* Socket s keeps the packets k in its queue: one after the other along _next,
\* the first one sending, none twice.
Listed(s, k) ==
    /\ \A i, j \in 1 .. Len(k) : k[i] = k[j] => i = j
    /\ sendingPacket[s] = IF k = <<>> THEN Nil ELSE k[1]
    /\ lastPacket[s] = IF k = <<>> THEN Nil ELSE k[Len(k)]
    /\ \A i \in 1 .. Len(k) :
        /\ mem[k[i]].next = IF i < Len(k) THEN k[i + 1] ELSE Nil
        /\ mem[k[i]].sending <=> i = 1

\* A guarded handler holds one more packet: a Released one to be filled, or one
\* to be freed.
Outside(s, k) ==
    /\ filling[s] = Nil \/ freeing[s] = Nil
    /\ filling[s] # Nil =>
        /\ mem[filling[s].packet] = Released(filling[s].packet[1])
        /\ \A i \in 1 .. Len(k) : k[i] # filling[s].packet
    /\ freeing[s] # Nil => \A i \in 1 .. Len(k) : k[i] # freeing[s]

\* What the kernel has is the whole first packet.
Posts(s, k) ==
    posted[s] # <<>> =>
        k # <<>> /\ posted[s] = <<[packet |-> k[1], len |-> Len(mem[k[1]].msgs)]>>

\* The packets that were not transmitted.
Waiting(s, k) == IF completions[s] > 0 THEN Tail(k) ELSE k

\* The messages in the packets w, as the packets m hold them.
MsgsOf(m, w) == [i \in DOMAIN w |-> m[w[i]].msgs]

Carries(s, w) == wire[s] \o FlattenSeq(MsgsOf(mem, w)) = accepted[s]

SocketInv(s, k) ==
    /\ Listed(s, k) /\ Outside(s, k) /\ Posts(s, k)
    /\ Carries(s, Waiting(s, k))

\* Socket s uses packet p.
Uses(s, k, p) ==
    \/ \E i \in 1 .. Len(k) : k[i] = p
    \/ filling[s] # Nil /\ p = filling[s].packet
    \/ freeing[s] # Nil /\ p = freeing[s]

\* The elements of the pool of class c that are out.
Out(c) == {i \in Index : live[c][i] = 1}

\* No packet is lent twice: the part of Sound that the queues rest on.
LentOnce == \A c \in Classes, i \in Index : live[c][i] <= 1

\* The pools have given out exactly the packets the sockets use, each once and to one
\* socket; what is not given out is Released.
PoolsInv(q) ==
    /\ LentOnce
    /\ \A s, t \in Sockets, p \in Packets : Uses(s, q[s], p) /\ Uses(t, q[t], p) => s = t
    /\ \A c \in Classes, i \in Index :
        live[c][i] = 1 <=> \E s \in Sockets : Uses(s, q[s], <<c, i>>)
    /\ \A c \in Classes : used[c] = Cardinality(Out(c))
    /\ \A p \in Packets : mem[p] # Released(p[1]) => live[p[1]][p[2]] = 1

QueueInv(q) == PoolsInv(q) /\ \A s \in Sockets : SocketInv(s, q[s])

Msg == [from : Sockets, n : Nat \ {0}, len : Lens]

Queues == [Sockets -> Seq(Packets)]

TypeInv ==
    /\ TypeOK
    /\ wire \in [Sockets -> Seq(Msg)]
    /\ accepted \in [Sockets -> Seq(Msg)]
    /\ live \in [Classes -> [Index -> Nat]]
    /\ answer \in [Classes -> Index \cup {Nil}]

-----------------------------------------------------------------------------
(* Sequences of messages                                                   *)

\* A set of numbers has a least element.
LEMMA Least ==
    ASSUME NEW S \in SUBSET Nat, S # {}
    PROVE  \E n \in S : \A m \in S : n <= m
<1> DEFINE R == OpToRel(<, Nat)
<1>0. IsWellFoundedOn(R, Nat)
  BY NatLessThanWellFounded
<1>1. PICK n \in S : \A m \in S : ~(<<m, n>> \in R)
  <2> HIDE DEF R
  <2> QED
    BY <1>0, WFMin
<1>2. \A a, b \in Nat : a < b => <<a, b>> \in OpToRel(<, Nat)
  BY Zenon DEF OpToRel
<1>3. \A m \in S : ~(m < n)
  BY <1>1, <1>2, Zenon
<1> QED
  BY <1>3

\* Induction, for a set of numbers.
LEMMA Induction ==
    ASSUME NEW S, 0 \in S, \A n \in Nat : n \in S => n + 1 \in S
    PROVE  Nat \subseteq S
<1> SUFFICES ASSUME Nat \ S # {} PROVE FALSE
  OBVIOUS
<1>1. PICK n \in Nat \ S : \A m \in Nat \ S : n <= m
  BY Least
<1>2. n # 0 /\ n - 1 \in Nat /\ n - 1 \in S
  BY <1>1
<1>3. (n - 1) + 1 \in S
  BY <1>2
<1> QED
  BY <1>1, <1>3

\* f gathers the first n sequences of ss from the front.
Gathers(f, ss, n) == f = [i \in 1 .. n |-> IF i = 1 THEN ss[i] ELSE f[i - 1] \o ss[i]]

\* There is such a function, and one of a longer sequence agrees with it.
LEMMA GathersExists ==
    ASSUME NEW ss, NEW n \in Nat
    PROVE  \E f : Gathers(f, ss, n)
<1> DEFINE S == {k \in Nat : \E f : Gathers(f, ss, k)}
<1>1. 0 \in S
  <2>1. Gathers([i \in 1 .. 0 |-> 0], ss, 0)
    BY DEF Gathers
  <2> QED
    BY <2>1
<1>2. ASSUME NEW k \in Nat, k \in S PROVE k + 1 \in S
  <2>1. PICK f : Gathers(f, ss, k)
    BY <1>2
  <2> DEFINE g == [i \in 1 .. k + 1 |->
                      IF i <= k THEN f[i] ELSE IF i = 1 THEN ss[i] ELSE f[i - 1] \o ss[i]]
  <2>2. \A i \in 1 .. k : f[i] = IF i = 1 THEN ss[i] ELSE f[i - 1] \o ss[i]
    BY <2>1, Zenon DEF Gathers
  <2>3. \A i \in 1 .. k + 1 : g[i] = IF i = 1 THEN ss[i] ELSE g[i - 1] \o ss[i]
    BY <2>2
  <2>4. Gathers(g, ss, k + 1)
    <3>1. g = [i \in 1 .. k + 1 |-> g[i]]
      OBVIOUS
    <3> HIDE DEF g
    <3> QED
      BY <2>3, <3>1, Zenon DEF Gathers
  <2> QED
    BY <2>4
<1>3. Nat \subseteq S
  BY <1>1, <1>2, Induction
<1> QED
  BY <1>3

LEMMA GathersUnique ==
    ASSUME NEW ss, NEW tt, NEW f, NEW g, NEW m \in Nat, NEW n \in Nat,
           Gathers(f, ss, m), Gathers(g, tt, n), m <= n,
           \A i \in 1 .. m : ss[i] = tt[i]
    PROVE  \A i \in 1 .. m : f[i] = g[i]
<1> DEFINE S == {k \in Nat : k \in 1 .. m => f[k] = g[k]}
<1>1. /\ \A i \in 1 .. m : f[i] = IF i = 1 THEN ss[i] ELSE f[i - 1] \o ss[i]
      /\ \A i \in 1 .. n : g[i] = IF i = 1 THEN tt[i] ELSE g[i - 1] \o tt[i]
  BY Zenon DEF Gathers
<1>2. 0 \in S
  OBVIOUS
<1>3. ASSUME NEW k \in Nat, k \in S, k + 1 \in 1 .. m PROVE f[k + 1] = g[k + 1]
  <2>0. k + 1 \in 1 .. n
    BY <1>3
  <2>1. CASE k = 0
    BY <1>1, <1>3, <2>0, <2>1
  <2>2. CASE k # 0
    <3>1. f[k] = g[k] /\ ss[k + 1] = tt[k + 1] /\ (k + 1) - 1 = k /\ k + 1 # 1
      BY <1>3, <2>2
    <3>2. f[k + 1] = f[k] \o ss[k + 1] /\ g[k + 1] = g[k] \o tt[k + 1]
      BY <1>1, <1>3, <2>0, <3>1, Zenon
    <3> QED
      BY <3>1, <3>2
  <2> QED
    BY <2>1, <2>2
<1>4. \A k \in Nat : k \in S => k + 1 \in S
  BY <1>3
<1>5. Nat \subseteq S
  <2> HIDE DEF S
  <2> QED
    BY <1>2, <1>4, Induction
<1> QED
  BY <1>5

\* FlattenSeq of a sequence, by one of its sequences more.
LEMMA FlattenAppend ==
    ASSUME NEW B, NEW ss \in Seq(Seq(B)), NEW t \in Seq(B)
    PROVE  FlattenSeq(Append(ss, t)) = IF ss = <<>> THEN t ELSE FlattenSeq(ss) \o t
<1> DEFINE tt == Append(ss, t)
           n == Len(ss)
           f == CHOOSE f : Gathers(f, ss, n)
           g == CHOOSE g : Gathers(g, tt, n + 1)
<1>1. FlattenSeq(ss) = IF Len(ss) = 0 THEN ss ELSE f[n]
  BY DEF FlattenSeq, Gathers
<1>2. n \in Nat /\ Len(tt) = n + 1 /\ tt[n + 1] = t /\ \A i \in 1 .. n : tt[i] = ss[i]
  OBVIOUS
<1>3. FlattenSeq(tt) = g[n + 1]
  <2>1. FlattenSeq(tt) = IF Len(tt) = 0 THEN tt ELSE (CHOOSE h : Gathers(h, tt, Len(tt)))[Len(tt)]
    BY DEF FlattenSeq, Gathers
  <2> QED
    BY <1>2, <2>1
<1> HIDE DEF tt
<1>4. Gathers(f, ss, n) /\ Gathers(g, tt, n + 1)
  <2>1. n \in Nat /\ n + 1 \in Nat
    BY <1>2
  <2>2. \E h : Gathers(h, ss, n)
    BY <2>1, GathersExists, Zenon
  <2>3. \E h : Gathers(h, tt, n + 1)
    BY <2>1, GathersExists, Zenon
  <2> QED
    BY <2>2, <2>3, Zenon
<1> HIDE DEF f, g
<1>5. \A i \in 1 .. n : f[i] = g[i]
  <2>1. n \in Nat /\ n + 1 \in Nat /\ n <= n + 1 /\ \A i \in 1 .. n : ss[i] = tt[i]
    BY <1>2
  <2> HIDE DEF n
  <2> QED
    BY <1>4, <2>1, GathersUnique, SMT
<1>6. \A i \in 1 .. n + 1 : g[i] = IF i = 1 THEN tt[i] ELSE g[i - 1] \o tt[i]
  BY <1>4, Zenon DEF Gathers
<1>7. CASE n = 0
  BY <1>2, <1>3, <1>6, <1>7 DEF tt
<1>8. CASE n # 0
  <2>1. n + 1 \in 1 .. n + 1 /\ n + 1 # 1 /\ (n + 1) - 1 = n /\ n \in 1 .. n /\ ss # <<>>
    BY <1>2, <1>8
  <2>2. g[n + 1] = g[n] \o tt[n + 1]
    BY <1>6, <2>1, Zenon
  <2> QED
    BY <1>1, <1>2, <1>3, <1>5, <1>8, <2>1, <2>2 DEF tt
<1> QED
  BY <1>7, <1>8

\* Sequences of B put together are a sequence of B.
LEMMA FlattenType ==
    ASSUME NEW B, NEW ss \in Seq(Seq(B))
    PROVE  FlattenSeq(ss) \in Seq(B)
<1> DEFINE S == {k \in Nat : \A tt \in Seq(Seq(B)) : Len(tt) = k => FlattenSeq(tt) \in Seq(B)}
<1>1. 0 \in S
  <2>1. ASSUME NEW tt \in Seq(Seq(B)), Len(tt) = 0 PROVE FlattenSeq(tt) \in Seq(B)
    BY <2>1 DEF FlattenSeq
  <2> QED
    BY <2>1
<1>2. ASSUME NEW k \in Nat, k \in S PROVE k + 1 \in S
  <2>1. ASSUME NEW tt \in Seq(Seq(B)), Len(tt) = k + 1 PROVE FlattenSeq(tt) \in Seq(B)
    <3>1. PICK rr \in Seq(Seq(B)), t \in Seq(B) : tt = Append(rr, t) /\ Len(rr) = k
      <4> DEFINE rr == SubSeq(tt, 1, k)
      <4>1. rr \in Seq(Seq(B)) /\ tt[k + 1] \in Seq(B) /\ Len(rr) = k
        BY <2>1
      <4>2. tt = Append(rr, tt[k + 1])
        BY <2>1
      <4> QED
        BY <4>1, <4>2
    <3>2. FlattenSeq(rr) \in Seq(B)
      BY <1>2, <3>1
    <3>3. FlattenSeq(Append(rr, t)) = IF rr = <<>> THEN t ELSE FlattenSeq(rr) \o t
      BY <3>1, FlattenAppend
    <3> QED
      BY <3>1, <3>2, <3>3
  <2> QED
    BY <2>1
<1>3. Nat \subseteq S
  BY <1>1, <1>2, Induction
<1> QED
  BY <1>3

\* The same, the first sequence included.
LEMMA FlattenMore ==
    ASSUME NEW B, NEW ss \in Seq(Seq(B)), NEW t \in Seq(B)
    PROVE  FlattenSeq(Append(ss, t)) = FlattenSeq(ss) \o t
<1>1. CASE ss = <<>>
  <2>1. FlattenSeq(ss) = <<>>
    BY <1>1 DEF FlattenSeq
  <2>2. <<>> \o t = t
    OBVIOUS
  <2> QED
    BY <1>1, <2>1, <2>2, FlattenAppend
<1>2. CASE ss # <<>>
  BY <1>2, FlattenAppend
<1> QED
  BY <1>1, <1>2

\* Sequences put together, and what follows the same beginning.
LEMMA Regroup ==
    ASSUME NEW S
    PROVE  /\ \A a, b \in Seq(S) : a \o b \in Seq(S)
           /\ \A a, b, c \in Seq(S) : (a \o b) \o c = a \o (b \o c)
           /\ \A a, b, c \in Seq(S) : a \o b = a \o c => b = c
<1>1. \A a, b \in Seq(S) : a \o b \in Seq(S)
  OBVIOUS
<1>2. \A a, b, c \in Seq(S) : (a \o b) \o c = a \o (b \o c)
  BY ConcatAssociative
<1>3. \A a, b, c \in Seq(S) : a \o b = a \o c => b = c
  BY ConcatSimplifications, Zenon
<1> QED
  BY <1>1, <1>2, <1>3

\* A sequence is its last element behind the others.
LEMMA LastOne ==
    ASSUME NEW S, NEW k \in Seq(S), NEW n \in Nat, Len(k) = n + 1
    PROVE  k = Append(SubSeq(k, 1, n), k[n + 1])
<1>1. SubSeq(k, 1, n) \in Seq(S) /\ Len(SubSeq(k, 1, n)) = n /\ k[n + 1] \in S
  OBVIOUS
<1>2. \A i \in 1 .. n : SubSeq(k, 1, n)[i] = k[i]
  OBVIOUS
<1> DEFINE a == SubSeq(k, 1, n)
           b == k[n + 1]
<1>3. /\ Append(a, b) \in Seq(S) /\ Len(Append(a, b)) = n + 1
      /\ \A i \in 1 .. n + 1 : Append(a, b)[i] = k[i]
  <2> HIDE DEF a, b
  <2>1. a \in Seq(S) /\ Len(a) = n /\ b \in S /\ \A i \in 1 .. n : a[i] = k[i]
    BY <1>1, <1>2 DEF a, b
  <2>2. /\ Append(a, b) \in Seq(S) /\ Len(Append(a, b)) = n + 1
        /\ \A i \in 1 .. n + 1 : Append(a, b)[i] = IF i = n + 1 THEN b ELSE a[i]
    BY <2>1
  <2> QED
    BY <2>1, <2>2 DEF b
<1> HIDE DEF a, b
<1>4. Append(a, b) = k
  BY <1>3, SeqEqual
<1> QED
  BY <1>4 DEF a, b

LEMMA TailType ==
    ASSUME NEW S, NEW k \in Seq(S), k # <<>>
    PROVE  k[1] \in S /\ Tail(k) \in Seq(S) /\ k[Len(k)] \in S /\ Len(Tail(k)) = Len(k) - 1
  OBVIOUS

LEMMA TailOfMore ==
    ASSUME NEW S, NEW k \in Seq(S), NEW x \in S, k # <<>>
    PROVE  Tail(Append(k, x)) = Append(Tail(k), x)
<1>1. /\ Tail(Append(k, x)) \in Seq(S) /\ Append(Tail(k), x) \in Seq(S)
      /\ Len(Tail(Append(k, x))) = Len(k) /\ Len(Append(Tail(k), x)) = Len(k)
  OBVIOUS
<1>2. \A i \in 1 .. Len(k) : Tail(Append(k, x))[i] = Append(Tail(k), x)[i]
  OBVIOUS
<1> QED
  BY <1>1, <1>2, SeqEqual

LEMMA CatAppend ==
    ASSUME NEW S, NEW a \in Seq(S), NEW b \in Seq(S), NEW x \in S
    PROVE  a \o Append(b, x) = Append(a \o b, x)
<1>1. Append(b, x) = b \o <<x>> /\ Append(a \o b, x) = (a \o b) \o <<x>> /\ <<x>> \in Seq(S)
  BY AppendIsConcat, ConcatProperties
<1>2. (a \o b) \o <<x>> = a \o (b \o <<x>>)
  <2>1. \A u, v, w \in Seq(S) : (u \o v) \o w = u \o (v \o w)
    BY Regroup, Zenon
  <2> DEFINE y == <<x>>
  <2>2. y \in Seq(S)
    BY <1>1
  <2> HIDE DEF y
  <2>3. (a \o b) \o y = a \o (b \o y)
    BY <2>1, <2>2, Zenon
  <2> QED
    BY <2>3 DEF y
<1> QED
  BY <1>1, <1>2

\* The first sequence, and the others put together.
LEMMA FlattenHead ==
    ASSUME NEW B, NEW ss \in Seq(Seq(B)), ss # <<>>
    PROVE  FlattenSeq(ss) = ss[1] \o FlattenSeq(Tail(ss))
<1> DEFINE S == {k \in Nat : \A tt \in Seq(Seq(B)) :
                    Len(tt) = k + 1 => FlattenSeq(tt) = tt[1] \o FlattenSeq(Tail(tt))}
<1>1. 0 \in S
  <2>1. ASSUME NEW tt \in Seq(Seq(B)), Len(tt) = 1
        PROVE  FlattenSeq(tt) = tt[1] \o FlattenSeq(Tail(tt))
    <3>1. tt = Append(<<>>, tt[1]) /\ Tail(tt) = <<>> /\ tt[1] \in Seq(B)
      <4>1. tt[1] \in Seq(B)
        <5>1. tt # <<>>
          <6>1. Len(<<>>) = 0 /\ 1 # 0
            OBVIOUS
          <6> QED
            BY <2>1, <6>1, Zenon
        <5>2. \A r \in Seq(Seq(B)) : r # <<>> => r[1] \in Seq(B)
          BY TailType, Zenon
        <5> QED
          BY <5>1, <5>2, Zenon
      <4>2. tt = <<tt[1]>>
        BY <2>1
      <4>3. \A y : Append(<<>>, y) = <<y>> /\ Tail(<<y>>) = <<>>
        OBVIOUS
      <4> QED
        BY <4>1, <4>2, <4>3, Zenon
    <3>2. FlattenSeq(<<>>) = <<>>
      BY DEF FlattenSeq
    <3>3. FlattenSeq(tt) = FlattenSeq(<<>>) \o tt[1]
      <4>1. \A x \in Seq(B) : FlattenSeq(Append(<<>>, x)) = FlattenSeq(<<>>) \o x
        <5>1. <<>> \in Seq(Seq(B))
          OBVIOUS
        <5> QED
          BY <5>1, FlattenMore, Zenon
      <4> QED
        BY <3>1, <4>1, Zenon
    <3>4. \A x \in Seq(B) : <<>> \o x = x /\ x \o <<>> = x
      BY ConcatEmptySeq
    <3> QED
      BY <3>1, <3>2, <3>3, <3>4, Zenon
  <2> QED
    BY <2>1
<1>2. ASSUME NEW k \in Nat, k \in S PROVE k + 1 \in S
  <2>1. ASSUME NEW tt \in Seq(Seq(B)), Len(tt) = (k + 1) + 1
        PROVE  FlattenSeq(tt) = tt[1] \o FlattenSeq(Tail(tt))
    <3> DEFINE rr == SubSeq(tt, 1, k + 1)
               t == tt[k + 2]
    <3>1. rr \in Seq(Seq(B)) /\ t \in Seq(B) /\ Len(rr) = k + 1 /\ rr[1] = tt[1]
      BY <2>1
    <3>2. tt = Append(rr, t) /\ Tail(tt) = Append(Tail(rr), t) /\ Tail(rr) \in Seq(Seq(B))
      <4>1. Tail(tt) \in Seq(Seq(B)) /\ Tail(rr) \in Seq(Seq(B)) /\ rr # <<>>
        <5>1. tt # <<>> /\ rr # <<>>
          <6>1. Len(<<>>) = 0 /\ (k + 1) + 1 # 0 /\ k + 1 # 0
            OBVIOUS
          <6> HIDE DEF rr
          <6> QED
            BY <2>1, <3>1, <6>1, Zenon
        <5>2. \A r \in Seq(Seq(B)) : r # <<>> => Tail(r) \in Seq(Seq(B))
          BY TailType, Zenon
        <5> HIDE DEF rr
        <5> QED
          BY <3>1, <5>1, <5>2, Zenon
      <4>2. tt = Append(rr, t)
        BY <2>1, LastOne
      <4>3. Tail(Append(rr, t)) = Append(Tail(rr), t)
        <5> HIDE DEF rr, t
        <5> QED
          BY <3>1, <4>1, TailOfMore, Zenon
      <4> QED
        BY <4>1, <4>2, <4>3
    <3> HIDE DEF rr, t
    <3>3. FlattenSeq(rr) = rr[1] \o FlattenSeq(Tail(rr))
      BY <1>2, <3>1
    <3>4. /\ FlattenSeq(tt) = FlattenSeq(rr) \o t
          /\ FlattenSeq(Tail(tt)) = FlattenSeq(Tail(rr)) \o t
      BY <3>1, <3>2, FlattenMore, Zenon
    <3>5. FlattenSeq(Tail(rr)) \in Seq(B) /\ rr[1] \in Seq(B)
      <4>1. rr[1] \in Seq(B)
        BY <3>1
      <4> QED
        BY <3>2, <4>1, FlattenType, Zenon
    <3>6. \A a, b, c \in Seq(B) : (a \o b) \o c = a \o (b \o c)
      BY Regroup, Zenon
    <3>7. (rr[1] \o FlattenSeq(Tail(rr))) \o t = rr[1] \o (FlattenSeq(Tail(rr)) \o t)
      BY <3>1, <3>5, <3>6, Zenon
    <3> QED
      BY <3>1, <3>3, <3>4, <3>7, Zenon
  <2> QED
    BY <2>1
<1>3. Nat \subseteq S
  <2> HIDE DEF S
  <2> QED
    BY <1>1, <1>2, Induction
<1>4. Len(ss) - 1 \in Nat /\ Len(ss) = (Len(ss) - 1) + 1
  OBVIOUS
<1>5. Len(ss) - 1 \in S
  <2> HIDE DEF S
  <2> QED
    BY <1>3, <1>4
<1> QED
  BY <1>4, <1>5

\* One element more in the last sequence.
LEMMA FlattenLast ==
    ASSUME NEW B, NEW ss \in Seq(Seq(B)), NEW tt \in Seq(Seq(B)), NEW x \in B,
           ss # <<>>, Len(tt) = Len(ss),
           \A i \in 1 .. Len(ss) : tt[i] = IF i < Len(ss) THEN ss[i] ELSE Append(ss[i], x)
    PROVE  FlattenSeq(tt) = Append(FlattenSeq(ss), x)
<1> DEFINE n == Len(ss) - 1
           rr == SubSeq(ss, 1, n)
           t == ss[Len(ss)]
<1>1. rr \in Seq(Seq(B)) /\ t \in Seq(B) /\ Append(t, x) \in Seq(B)
  OBVIOUS
<1>0. n \in Nat /\ Len(ss) = n + 1 /\ Len(tt) = n + 1
  OBVIOUS
<1>2. ss = Append(rr, t)
  BY <1>0, LastOne
<1>3. tt = Append(rr, Append(t, x))
  <2>1. tt = Append(SubSeq(tt, 1, n), tt[n + 1])
    BY <1>0, LastOne
  <2>2. tt[n + 1] = Append(t, x)
    <3>1. n + 1 \in 1 .. Len(ss) /\ ~(n + 1 < Len(ss)) /\ n + 1 = Len(ss)
      BY <1>0
    <3> HIDE DEF n
    <3> QED
      BY <3>1, Zenon
  <2>3. SubSeq(tt, 1, n) = rr
    BY <1>0
  <2> QED
    BY <2>1, <2>2, <2>3
<1> HIDE DEF rr, t
<1>4. /\ FlattenSeq(ss) = FlattenSeq(rr) \o t
      /\ FlattenSeq(tt) = FlattenSeq(rr) \o Append(t, x)
  BY <1>1, <1>2, <1>3, FlattenMore, Zenon
<1>5. FlattenSeq(rr) \in Seq(B)
  BY <1>1, FlattenType, Zenon
<1>6. FlattenSeq(rr) \o Append(t, x) = Append(FlattenSeq(rr) \o t, x)
  <2>1. ASSUME NEW a \in Seq(B), NEW b \in Seq(B), NEW y \in B
        PROVE  a \o Append(b, y) = Append(a \o b, y)
    BY CatAppend
  <2> QED
    BY <1>1, <1>5, <2>1, Zenon
<1> QED
  BY <1>4, <1>6

-----------------------------------------------------------------------------
(* Types                                                                   *)

PacketType == [msgs : Seq(Msg), imm : BOOLEAN, sending : BOOLEAN, size : Nat,
               remain : 0 .. Wrap - 1, next : Packets \cup {Nil}]

FillingType == [packet : Packets, len : Lens, imm : BOOLEAN]

PostingType == [packet : Packets, len : Nat]

\* Every message has a length.
LEMMA LensAreNat == Lens \subseteq Nat
<1>1. \A m \in Messages : m[1] \in Nat
  BY MessagesAssumption
<1> QED
  BY <1>1 DEF Lens

\* A packet is a class and an index, and not nullptr.
LEMMA PacketParts ==
    ASSUME NEW p \in Packets
    PROVE  p[1] \in Classes /\ p[2] \in Index /\ p = <<p[1], p[2]>> /\ p # Nil
<1>1. p[1] \in Classes /\ p[2] \in Index /\ p = <<p[1], p[2]>>
  BY DEF Packets
<1>2. p \in Classes \X Int
  BY <1>1 DEF Index
<1> QED
  BY <1>1, <1>2, NilAssumption, Zenon

\* A Send in progress is not nullptr either.
LEMMA FillingNotNil == \A f \in FillingType : f # Nil
<1>1. FillingType \subseteq [packet : Packets, len : Nat, imm : BOOLEAN]
  BY LensAreNat DEF FillingType
<1> QED
  BY <1>1, NilAssumption

LEMMA ReleasedType == ASSUME NEW c \in Classes PROVE Released(c) \in PacketType
<1>1. c \in 0 .. Wrap - 1
  BY ClassesAssumption, WrapAssumption
<1>2. <<>> \in Seq(Msg)
  OBVIOUS
<1> QED
  BY <1>1, <1>2 DEF Released, PacketType

LEMMA WrapType == \A x \in Int : x % Wrap \in 0 .. Wrap - 1
  BY WrapAssumption

\* What TypeInv says of the parts that the proofs use.
LEMMA TypeParts ==
    ASSUME TypeInv
    PROVE  /\ mem \in [Packets -> PacketType]
           /\ used \in [Classes -> 0 .. PoolSize]
           /\ sendingPacket \in [Sockets -> Packets \cup {Nil}]
           /\ lastPacket \in [Sockets -> Packets \cup {Nil}]
           /\ filling \in [Sockets -> FillingType \cup {Nil}]
           /\ freeing \in [Sockets -> Packets \cup {Nil}]
           /\ posted \in [Sockets -> Seq(PostingType)]
           /\ completions \in [Sockets -> Nat]
           /\ broken \subseteq Sockets /\ crashed \in BOOLEAN
           /\ wire \in [Sockets -> Seq(Msg)] /\ accepted \in [Sockets -> Seq(Msg)]
           /\ live \in [Classes -> [Index -> Nat]]
           /\ answer \in [Classes -> Index \cup {Nil}]
  BY DEF TypeInv, TypeOK, PacketType, FillingType, PostingType, Msg

LEMMA TypeWhole ==
    ASSUME /\ mem \in [Packets -> PacketType]
           /\ used \in [Classes -> 0 .. PoolSize]
           /\ sendingPacket \in [Sockets -> Packets \cup {Nil}]
           /\ lastPacket \in [Sockets -> Packets \cup {Nil}]
           /\ filling \in [Sockets -> FillingType \cup {Nil}]
           /\ freeing \in [Sockets -> Packets \cup {Nil}]
           /\ posted \in [Sockets -> Seq(PostingType)]
           /\ completions \in [Sockets -> Nat]
           /\ broken \subseteq Sockets /\ crashed \in BOOLEAN
           /\ wire \in [Sockets -> Seq(Msg)] /\ accepted \in [Sockets -> Seq(Msg)]
           /\ live \in [Classes -> [Index -> Nat]]
           /\ answer \in [Classes -> Index \cup {Nil}]
    PROVE  TypeInv
  BY DEF TypeInv, TypeOK, PacketType, FillingType, PostingType, Msg

LEMMA TypeNext ==
    ASSUME /\ mem' \in [Packets -> PacketType]
           /\ used' \in [Classes -> 0 .. PoolSize]
           /\ sendingPacket' \in [Sockets -> Packets \cup {Nil}]
           /\ lastPacket' \in [Sockets -> Packets \cup {Nil}]
           /\ filling' \in [Sockets -> FillingType \cup {Nil}]
           /\ freeing' \in [Sockets -> Packets \cup {Nil}]
           /\ posted' \in [Sockets -> Seq(PostingType)]
           /\ completions' \in [Sockets -> Nat]
           /\ broken' \subseteq Sockets /\ crashed' \in BOOLEAN
           /\ wire' \in [Sockets -> Seq(Msg)] /\ accepted' \in [Sockets -> Seq(Msg)]
           /\ live' \in [Classes -> [Index -> Nat]]
           /\ answer' \in [Classes -> Index \cup {Nil}]
    PROVE  TypeInv'
  BY DEF TypeInv, TypeOK, PacketType, FillingType, PostingType, Msg

LEMMA TypeUnchanged == ASSUME TypeInv, UNCHANGED vars PROVE TypeInv'
  BY TypeNext DEF vars, queues, kernel, pools, TypeInv, TypeOK

\* A message Send takes.
LEMMA MessageType ==
    ASSUME TypeInv, NEW s \in Sockets, NEW len \in Lens
    PROVE  /\ Message(s, len) \in Msg
           /\ Append(accepted[s], Message(s, len)) \in Seq(Msg)
<1>1. accepted[s] \in Seq(Msg)
  BY TypeParts
<1>2. Len(accepted[s]) + 1 \in Nat \ {0}
  BY <1>1
<1>3. Message(s, len) \in Msg
  BY <1>2 DEF Message, Msg
<1> QED
  BY <1>1, <1>3

\* The packet a Send fills.
LEMMA FillingParts ==
    ASSUME TypeInv, NEW s \in Sockets, filling[s] # Nil
    PROVE  filling[s].packet \in Packets /\ filling[s].len \in Lens /\ filling[s].imm \in BOOLEAN
  BY TypeParts DEF FillingType

LEMMA FilledParts ==
    ASSUME TypeInv, NEW s \in Sockets, filling[s] # Nil
    PROVE  LET m == mem[filling[s].packet] IN
           /\ Filled(s) \in PacketType
           /\ Filled(s).msgs = <<Message(s, filling[s].len)>>
           /\ Filled(s).sending = m.sending /\ Filled(s).next = m.next
           /\ Filled(s).size = filling[s].len + HDR
           /\ Filled(s).remain = (m.remain - (filling[s].len + HDR)) % Wrap
<1> DEFINE f == filling[s]
           m == mem[f.packet]
<1>1. f.packet \in Packets /\ f.len \in Nat /\ f.len \in Lens /\ f.imm \in BOOLEAN
  BY FillingParts, LensAreNat
<1>2. m \in PacketType
  BY <1>1, TypeParts
<1>3. Message(s, f.len) \in Msg
  BY <1>1, MessageType
<1>4. <<Message(s, f.len)>> \in Seq(Msg)
  BY <1>3
<1>5. m.remain \in Int
  BY <1>2 DEF PacketType
<1>6. (m.remain - (f.len + HDR)) % Wrap \in 0 .. Wrap - 1 /\ f.len + HDR \in Nat
  <2>1. m.remain - (f.len + HDR) \in Int
    BY <1>1, <1>5 DEF HDR
  <2> QED
    BY <1>1, <2>1, WrapType DEF HDR
<1>7. Filled(s) = [m EXCEPT !.msgs = <<Message(s, f.len)>>, !.imm = f.imm, !.size = f.len + HDR,
                            !.remain = (m.remain - (f.len + HDR)) % Wrap]
  <2> HIDE DEF m
  <2> SUFFICES [m EXCEPT !.msgs = <<Message(s, f.len)>>, !.imm = f.imm, !.size = f.len + HDR,
                         !.remain = (@ - (f.len + HDR)) % Wrap]
               = [m EXCEPT !.msgs = <<Message(s, f.len)>>, !.imm = f.imm, !.size = f.len + HDR,
                           !.remain = (m.remain - (f.len + HDR)) % Wrap]
    BY DEF Filled, m
  <2> QED
    BY <1>2 DEF PacketType
<1> DEFINE r == (m.remain - (f.len + HDR)) % Wrap
           x == <<Message(s, f.len)>>
<1> HIDE DEF r, x
<1> QED
  BY <1>1, <1>2, <1>4, <1>6, <1>7 DEF PacketType, r, x

LEMMA PostType ==
    ASSUME TypeInv, NEW s \in Sockets, NEW p \in Packets, NEW m \in [Packets -> PacketType],
           Post(s, p, m)
    PROVE  posted' \in [Sockets -> Seq(PostingType)]
<1> DEFINE x == [packet |-> p, len |-> Len(m[p].msgs)]
<1>1. posted \in [Sockets -> Seq(PostingType)]
  BY TypeParts
<1>2. x \in PostingType
  <2>1. m[p].msgs \in Seq(Msg)
    BY DEF PacketType
  <2>2. Len(m[p].msgs) \in Nat
    BY <2>1
  <2> QED
    BY <2>2 DEF PostingType
<1>3. posted' = posted \/ posted' = [posted EXCEPT ![s] = Append(@, x)]
  BY DEF Post
<1> HIDE DEF x
<1>4. Append(posted[s], x) \in Seq(PostingType)
  BY <1>1, <1>2
<1> QED
  BY <1>1, <1>3, <1>4

LEMMA TypeInit == Init => TypeInv
<1> SUFFICES ASSUME Init PROVE TypeInv
  OBVIOUS
<1>1. mem \in [Packets -> PacketType]
  BY ReleasedType, PacketParts DEF Init
<1>2. used \in [Classes -> 0 .. PoolSize]
  BY BoundsAssumption DEF Init
<1>3. /\ wire \in [Sockets -> Seq(Msg)] /\ accepted \in [Sockets -> Seq(Msg)]
      /\ posted \in [Sockets -> Seq(PostingType)]
  BY DEF Init
<1>4. /\ sendingPacket \in [Sockets -> Packets \cup {Nil}]
      /\ lastPacket \in [Sockets -> Packets \cup {Nil}]
      /\ filling \in [Sockets -> FillingType \cup {Nil}]
      /\ freeing \in [Sockets -> Packets \cup {Nil}]
      /\ completions \in [Sockets -> Nat]
      /\ broken \subseteq Sockets /\ crashed \in BOOLEAN
  BY DEF Init
<1>5. /\ live \in [Classes -> [Index -> Nat]]
      /\ answer \in [Classes -> Index \cup {Nil}]
  BY DEF Init
<1> QED
  BY <1>1, <1>2, <1>3, <1>4, <1>5, TypeWhole

\* The class and the message of a call of Send.
LEMMA SendTypes ==
    ASSUME NEW m \in Messages
    PROVE  m[1] \in Lens /\ m[1] \in Nat /\ m[2] \in BOOLEAN
  BY MessagesAssumption, LensAreNat DEF Lens

LEMMA AppendType ==
    ASSUME TypeInv, NEW s \in Sockets, NEW len \in Lens, NEW imm, SendAppend(s, len, imm)
    PROVE  TypeInv'
<1> DEFINE p == lastPacket[s]
           x == Append(mem[p].msgs, Message(s, len))
           y == mem[p].size + len + HDR
           z == (mem[p].remain - (len + HDR)) % Wrap
<1>1. p \in Packets /\ mem[p] \in PacketType /\ len \in Nat
  BY TypeParts, LensAreNat DEF SendAppend, CanAppend
<1>2. Message(s, len) \in Msg /\ Append(accepted[s], Message(s, len)) \in Seq(Msg)
  BY MessageType
<1>3. x \in Seq(Msg) /\ y \in Nat /\ z \in 0 .. Wrap - 1
  <2>1. mem[p].msgs \in Seq(Msg) /\ mem[p].size \in Nat /\ mem[p].remain \in Int
    BY <1>1 DEF PacketType
  <2>2. mem[p].remain - (len + HDR) \in Int
    BY <1>1, <2>1 DEF HDR
  <2>3. x \in Seq(Msg)
    BY <1>2, <2>1
  <2>4. y \in Nat
    BY <1>1, <2>1 DEF HDR
  <2>5. z \in 0 .. Wrap - 1
    BY <2>2, WrapType
  <2> QED
    BY <2>3, <2>4, <2>5
<1>4. mem' = [mem EXCEPT ![p] = [@ EXCEPT !.msgs = x, !.size = y, !.remain = z]]
  BY <1>1, TypeParts DEF SendAppend, PacketType
<1> HIDE DEF x, y, z
<1>5. [mem[p] EXCEPT !.msgs = x, !.size = y, !.remain = z] \in PacketType
  BY <1>1, <1>3 DEF PacketType
<1>6. mem' \in [Packets -> PacketType]
  BY <1>1, <1>4, <1>5, TypeParts
<1>7. accepted' \in [Sockets -> Seq(Msg)]
  BY <1>2, TypeParts DEF SendAppend, Accept
<1> QED
  BY <1>6, <1>7, TypeParts, TypeNext DEF SendAppend, queues, kernel, pools

LEMMA AllocType ==
    ASSUME TypeInv, NEW s \in Sockets, NEW len \in Lens, NEW imm \in BOOLEAN,
           SendAlloc(s, len, imm)
    PROVE  TypeInv'
<1> DEFINE c == ClassOf(len)
           i == used[c]
<1>1. c \in Classes /\ i \in 0 .. PoolSize /\ i # PoolSize
  BY TypeParts, ClassOfFits DEF SendAlloc
<1>2. i \in Index /\ i + 1 \in 0 .. PoolSize /\ <<c, i>> \in Packets
  BY <1>1, BoundsAssumption DEF Index, Packets
<1> HIDE DEF c
<1>3. mem' \in [Packets -> PacketType]
  BY <1>1, <1>2, ReleasedType, TypeParts DEF SendAlloc, c
<1>4. used' \in [Classes -> 0 .. PoolSize]
  BY <1>1, <1>2, TypeParts DEF SendAlloc, c
<1>5. live' \in [Classes -> [Index -> Nat]]
  <2>1. live' = [live EXCEPT ![c] = [live[c] EXCEPT ![i] = live[c][i] + 1]]
    BY <1>1, <1>2, TypeParts DEF SendAlloc, c
  <2>2. live[c][i] + 1 \in Nat
    BY <1>1, <1>2, TypeParts
  <2>3. [live[c] EXCEPT ![i] = live[c][i] + 1] \in [Index -> Nat]
    BY <1>1, <1>2, <2>2, TypeParts
  <2> QED
    BY <1>1, <2>1, <2>3, TypeParts
<1>6. answer' \in [Classes -> Index \cup {Nil}]
  BY <1>1, <1>2, TypeParts DEF SendAlloc, c
<1>7. filling' \in [Sockets -> FillingType \cup {Nil}]
  BY <1>1, <1>2, TypeParts DEF SendAlloc, FillingType, c
<1> QED
  BY <1>3, <1>4, <1>5, <1>6, <1>7, TypeParts, TypeNext DEF SendAlloc, queues, kernel

LEMMA CrashType ==
    ASSUME TypeInv, NEW s \in Sockets, NEW len \in Lens, NEW imm \in BOOLEAN,
           SendAllocFull(s, len, imm) \/ SendTooLong(s, len, imm)
    PROVE  TypeInv'
<1>1. answer' \in [Classes -> Index \cup {Nil}] /\ crashed' = TRUE
  BY TypeParts DEF SendAllocFull, SendTooLong, pools
<1>2. UNCHANGED <<mem, queues, filling, freeing, kernel, accepted, used, live>>
  BY DEF SendAllocFull, SendTooLong, pools
<1> QED
  BY <1>1, <1>2, TypeParts, TypeNext DEF queues, kernel

LEMMA LinkType ==
    ASSUME TypeInv, NEW s \in Sockets, SendFirst(s) \/ SendQueued(s)
    PROVE  TypeInv'
<1> DEFINE p == filling[s].packet
<1>1. filling[s] # Nil
  BY DEF SendFirst, SendQueued
<1>2. p \in Packets /\ filling[s].len \in Lens /\ Filled(s) \in PacketType
  BY <1>1, FillingParts, FilledParts
<1>3. accepted' \in [Sockets -> Seq(Msg)]
  <2> DEFINE x == Message(s, filling[s].len)
  <2>1. Append(accepted[s], x) \in Seq(Msg)
    BY <1>2, MessageType
  <2>2. accepted' = [accepted EXCEPT ![s] = Append(@, x)]
    BY DEF SendFirst, SendQueued, Accept
  <2> HIDE DEF x
  <2> QED
    BY <2>1, <2>2, TypeParts
<1>4. mem' \in [Packets -> PacketType]
  <2>1. CASE SendFirst(s)
    <3>1. [Filled(s) EXCEPT !.sending = TRUE] \in PacketType
      BY <1>2 DEF PacketType
    <3>2. mem' = [mem EXCEPT ![p] = [Filled(s) EXCEPT !.sending = TRUE]]
      BY <2>1 DEF SendFirst
    <3> QED
      BY <1>2, <3>1, <3>2, TypeParts
  <2>2. CASE SendQueued(s)
    <3> DEFINE m == [mem EXCEPT ![p] = Filled(s)]
    <3>1. m \in [Packets -> PacketType]
      BY <1>2, TypeParts
    <3>2. mem' = [m EXCEPT ![lastPacket[s]].next = p]
      BY <2>2 DEF SendQueued
    <3> HIDE DEF m
    <3> QED
      BY <1>2, <3>1, <3>2, TypeParts DEF PacketType
  <2> QED
    BY <2>1, <2>2
<1>5. posted' \in [Sockets -> Seq(PostingType)]
  <2>1. CASE SendFirst(s)
    BY <1>2, <1>4, <2>1, PostType DEF SendFirst
  <2>2. CASE SendQueued(s)
    BY <2>2, TypeParts DEF SendQueued, kernel
  <2> QED
    BY <2>1, <2>2
<1>6. /\ sendingPacket' \in [Sockets -> Packets \cup {Nil}]
      /\ lastPacket' \in [Sockets -> Packets \cup {Nil}]
      /\ filling' \in [Sockets -> FillingType \cup {Nil}]
  BY <1>2, TypeParts DEF SendFirst, SendQueued
<1>7. UNCHANGED <<freeing, completions, broken, wire, crashed, pools>>
  BY DEF SendFirst, SendQueued, kernel
<1> QED
  BY <1>3, <1>4, <1>5, <1>6, <1>7, TypeParts, TypeNext DEF pools

LEMMA CallbackType ==
    ASSUME TypeInv, NEW s \in Sockets, WriteCallback(s)
    PROVE  TypeInv'
<1> DEFINE p == sendingPacket[s]
           next == mem[p].next
<1>1. p \in Packets /\ next \in Packets \cup {Nil}
  BY TypeParts DEF WriteCallback, PacketType
<1>2. completions[s] - 1 \in Nat
  BY TypeParts DEF WriteCallback
<1>3. /\ completions' \in [Sockets -> Nat]
      /\ freeing' \in [Sockets -> Packets \cup {Nil}]
      /\ sendingPacket' \in [Sockets -> Packets \cup {Nil}]
      /\ lastPacket' \in [Sockets -> Packets \cup {Nil}]
  BY <1>1, <1>2, TypeParts DEF WriteCallback
<1>4. /\ mem' \in [Packets -> PacketType]
      /\ posted' \in [Sockets -> Seq(PostingType)]
  <2>1. CASE next = Nil
    BY <2>1, TypeParts DEF WriteCallback
  <2>2. CASE next # Nil
    <3>1. mem' = [mem EXCEPT ![next].sending = TRUE] /\ Post(s, next, mem')
      BY <2>2 DEF WriteCallback
    <3>2. next \in Packets
      BY <1>1, <2>2
    <3> HIDE DEF next
    <3>3. mem' \in [Packets -> PacketType]
      BY <3>1, <3>2, TypeParts DEF PacketType
    <3> QED
      BY <3>1, <3>2, <3>3, PostType
  <2> QED
    BY <2>1, <2>2
<1>5. UNCHANGED <<filling, broken, wire, crashed, accepted, pools>>
  BY DEF WriteCallback
<1> QED
  BY <1>3, <1>4, <1>5, TypeParts, TypeNext DEF pools

LEMMA FreeType ==
    ASSUME TypeInv, NEW s \in Sockets, FreePacket(s),
           live[freeing[s][1]][freeing[s][2]] = 1, used[freeing[s][1]] > 0
    PROVE  TypeInv'
<1> DEFINE c == freeing[s][1]
           i == freeing[s][2]
<1>1. freeing[s] \in Packets /\ c \in Classes /\ i \in Index
  BY TypeParts, PacketParts DEF FreePacket
<1>2. live[c][i] = 1 /\ used[c] > 0
  OBVIOUS
<1>3. mem' \in [Packets -> PacketType] /\ freeing' \in [Sockets -> Packets \cup {Nil}]
  BY <1>1, ReleasedType, TypeParts DEF FreePacket
<1>4. /\ used' = [used EXCEPT ![c] = @ - 1]
      /\ live' = [live EXCEPT ![c] = [live[c] EXCEPT ![i] = live[c][i] - 1]]
  BY <1>1, TypeParts DEF FreePacket
<1> HIDE DEF c, i
<1>5. used' \in [Classes -> 0 .. PoolSize]
  BY <1>1, <1>2, <1>4, TypeParts, BoundsAssumption
<1>6. live' \in [Classes -> [Index -> Nat]]
  <2>1. live[c][i] - 1 \in Nat
    BY <1>2
  <2>2. [live[c] EXCEPT ![i] = live[c][i] - 1] \in [Index -> Nat]
    BY <1>1, <2>1, TypeParts
  <2> QED
    BY <1>1, <1>4, <2>2, TypeParts
<1> QED
  BY <1>3, <1>5, <1>6, TypeParts, TypeNext DEF FreePacket, queues, kernel

LEMMA KernelType ==
    ASSUME TypeInv, NEW s \in Sockets, Kernel(s),
           posted[s] # <<>> =>
               Head(posted[s]).len = Len(mem[Head(posted[s]).packet].msgs)
    PROVE  TypeInv'
<1>1. CASE Transmit(s)
  <2> DEFINE post == Head(posted[s])
             x == SubSeq(mem[post.packet].msgs, 1, post.len)
  <2>1. posted[s] \in Seq(PostingType) /\ posted[s] # <<>>
    BY <1>1, TypeParts DEF Transmit
  <2>2. post \in PostingType /\ Tail(posted[s]) \in Seq(PostingType)
    BY <2>1
  <2>3. mem[post.packet].msgs \in Seq(Msg)
    BY <2>2, TypeParts DEF PacketType, PostingType
  <2>4. x \in Seq(Msg)
    <3>1. \A k \in Seq(Msg) : SubSeq(k, 1, Len(k)) = k
      BY SubSeqFull, Zenon
    <3>2. post.len = Len(mem[post.packet].msgs)
      BY <1>1 DEF Transmit
    <3> QED
      BY <2>3, <3>1, <3>2
  <2>5. wire[s] \o x \in Seq(Msg)
    <3> HIDE DEF x
    <3> QED
      BY <2>4, TypeParts
  <2>6. wire' \in [Sockets -> Seq(Msg)]
    <3>1. wire' = [wire EXCEPT ![s] = wire[s] \o x]
      BY <1>1, TypeParts DEF Transmit
    <3> HIDE DEF x
    <3> QED
      BY <2>5, <3>1, TypeParts
  <2>7. posted' \in [Sockets -> Seq(PostingType)]
    BY <1>1, <2>2, TypeParts DEF Transmit
  <2>8. completions' \in [Sockets -> Nat]
    BY <1>1, TypeParts DEF Transmit
  <2> QED
    BY <1>1, <2>6, <2>7, <2>8, TypeParts, TypeNext DEF Transmit, queues, pools
<1>2. CASE BreakConnection(s)
  BY <1>2, TypeParts, TypeNext DEF BreakConnection, queues, pools
<1>3. CASE FailPosted(s)
  <2>1. posted[s] \in Seq(PostingType) /\ posted[s] # <<>>
    BY <1>3, TypeParts DEF FailPosted
  <2>2. Tail(posted[s]) \in Seq(PostingType)
    BY <2>1
  <2>3. posted' \in [Sockets -> Seq(PostingType)]
    BY <1>3, <2>2, TypeParts DEF FailPosted
  <2> QED
    BY <1>3, <2>3, TypeParts, TypeNext DEF FailPosted, queues, pools
<1> QED
  BY <1>1, <1>2, <1>3 DEF Kernel

-----------------------------------------------------------------------------
(* The messages of a queue                                                 *)

LEMMA MsgsType ==
    ASSUME NEW m \in [Packets -> PacketType], NEW w \in Seq(Packets)
    PROVE  /\ MsgsOf(m, w) \in Seq(Seq(Msg)) /\ Len(MsgsOf(m, w)) = Len(w)
           /\ \A i \in 1 .. Len(w) : MsgsOf(m, w)[i] = m[w[i]].msgs
<1>1. \A i \in 1 .. Len(w) : m[w[i]].msgs \in Seq(Msg)
  BY DEF PacketType
<1>2. MsgsOf(m, w) = [i \in 1 .. Len(w) |-> m[w[i]].msgs]
  BY DEF MsgsOf
<1> DEFINE S == Seq(Msg)
           f == [i \in 1 .. Len(w) |-> m[w[i]].msgs]
<1>3. f \in Seq(S) /\ Len(f) = Len(w) /\ \A i \in 1 .. Len(w) : f[i] = m[w[i]].msgs
  <2>1. \A i \in 1 .. Len(w) : m[w[i]].msgs \in S
    BY <1>1
  <2> HIDE DEF S
  <2> QED
    BY <2>1
<1> QED
  BY <1>2, <1>3

\* The same messages in the same order.
LEMMA MsgsSame ==
    ASSUME NEW m \in [Packets -> PacketType], NEW n \in [Packets -> PacketType],
           NEW w \in Seq(Packets), \A i \in 1 .. Len(w) : m[w[i]].msgs = n[w[i]].msgs
    PROVE  MsgsOf(m, w) = MsgsOf(n, w)
<1> DEFINE a == MsgsOf(m, w)
           b == MsgsOf(n, w)
<1>1. a \in Seq(Seq(Msg)) /\ b \in Seq(Seq(Msg)) /\ Len(a) = Len(b)
  BY MsgsType
<1>2. \A i \in 1 .. Len(a) : a[i] = b[i]
  BY MsgsType
<1> HIDE DEF a, b
<1>3. a = b
  BY <1>1, <1>2, SeqEqual
<1> QED
  BY <1>3 DEF a, b

LEMMA MsgsTail ==
    ASSUME NEW m \in [Packets -> PacketType], NEW w \in Seq(Packets), w # <<>>
    PROVE  FlattenSeq(MsgsOf(m, w)) = m[w[1]].msgs \o FlattenSeq(MsgsOf(m, Tail(w)))
<1> DEFINE a == MsgsOf(m, w)
           b == MsgsOf(m, Tail(w))
<1>1. Tail(w) \in Seq(Packets) /\ Len(w) >= 1 /\ Len(Tail(w)) = Len(w) - 1
  OBVIOUS
<1>2. a \in Seq(Seq(Msg)) /\ b \in Seq(Seq(Msg)) /\ Len(a) = Len(w) /\ Len(b) = Len(w) - 1
  BY <1>1, MsgsType
<1>3. a[1] = m[w[1]].msgs
  BY <1>1, MsgsType
<1>4. \A i \in 1 .. Len(w) - 1 : b[i] = a[i + 1]
  <2>1. \A i \in 1 .. Len(w) - 1 : Tail(w)[i] = w[i + 1] /\ i + 1 \in 1 .. Len(w)
    OBVIOUS
  <2>2. \A i \in 1 .. Len(w) - 1 : b[i] = m[Tail(w)[i]].msgs
    BY <1>1, MsgsType
  <2>3. \A i \in 1 .. Len(w) : a[i] = m[w[i]].msgs
    BY MsgsType
  <2> QED
    BY <2>1, <2>2, <2>3
<1> HIDE DEF a, b
<1>5. Tail(a) = b /\ a # <<>>
  <2> DEFINE S == Seq(Msg)
  <2>1. a \in Seq(S) /\ b \in Seq(S)
    BY <1>2
  <2> HIDE DEF S
  <2>2. a # <<>>
    BY <1>1, <1>2, <2>1
  <2>3. Tail(a) \in Seq(S) /\ Len(Tail(a)) = Len(b) /\ \A i \in 1 .. Len(b) : Tail(a)[i] = b[i]
    BY <1>1, <1>2, <1>4, <2>1, <2>2
  <2> QED
    BY <2>1, <2>2, <2>3, SeqEqual
<1>6. FlattenSeq(a) = a[1] \o FlattenSeq(Tail(a))
  BY <1>2, <1>5, FlattenHead
<1> QED
  BY <1>3, <1>5, <1>6 DEF a, b

LEMMA MsgsAppend ==
    ASSUME NEW m \in [Packets -> PacketType], NEW w \in Seq(Packets), NEW p \in Packets
    PROVE  FlattenSeq(MsgsOf(m, Append(w, p))) = FlattenSeq(MsgsOf(m, w)) \o m[p].msgs
<1> DEFINE a == MsgsOf(m, w)
           b == MsgsOf(m, Append(w, p))
           x == m[p].msgs
<1>1. Append(w, p) \in Seq(Packets) /\ Len(Append(w, p)) = Len(w) + 1
  OBVIOUS
<1>2. /\ a \in Seq(Seq(Msg)) /\ b \in Seq(Seq(Msg)) /\ x \in Seq(Msg)
      /\ Len(a) = Len(w) /\ Len(b) = Len(w) + 1
  BY <1>1, MsgsType DEF PacketType
<1>3. \A i \in 1 .. Len(w) + 1 : b[i] = IF i <= Len(w) THEN a[i] ELSE x
  <2>1. \A i \in 1 .. Len(w) + 1 : Append(w, p)[i] = IF i <= Len(w) THEN w[i] ELSE p
    OBVIOUS
  <2>2. \A i \in 1 .. Len(w) + 1 : b[i] = m[Append(w, p)[i]].msgs
    BY <1>1, MsgsType
  <2>3. \A i \in 1 .. Len(w) : a[i] = m[w[i]].msgs
    BY MsgsType
  <2> QED
    BY <2>1, <2>2, <2>3
<1> HIDE DEF a, b, x
<1>4. b = Append(a, x)
  <2> DEFINE S == Seq(Msg)
  <2>1. a \in Seq(S) /\ b \in Seq(S) /\ x \in S
    BY <1>2
  <2>3. Len(b) = Len(a) + 1 /\ \A i \in 1 .. Len(a) + 1 : b[i] = IF i <= Len(a) THEN a[i] ELSE x
    BY <1>2, <1>3
  <2> HIDE DEF S
  <2>4. /\ Append(a, x) \in Seq(S) /\ Len(Append(a, x)) = Len(a) + 1
        /\ \A i \in 1 .. Len(a) + 1 : Append(a, x)[i] = IF i <= Len(a) THEN a[i] ELSE x
    BY <2>1
  <2>2. /\ Append(a, x) \in Seq(S) /\ Len(Append(a, x)) = Len(b)
        /\ \A i \in 1 .. Len(b) : Append(a, x)[i] = b[i]
    BY <2>3, <2>4
  <2> QED
    BY <2>1, <2>2, SeqEqual
<1>5. FlattenSeq(Append(a, x)) = FlattenSeq(a) \o x
  BY <1>2, FlattenMore
<1> QED
  BY <1>4, <1>5 DEF a, b, x

\* One message more in the last packet.
LEMMA MsgsLast ==
    ASSUME NEW m \in [Packets -> PacketType], NEW n \in [Packets -> PacketType],
           NEW w \in Seq(Packets), w # <<>>, NEW x \in Msg,
           \A i \in 1 .. Len(w) :
               n[w[i]].msgs = IF i < Len(w) THEN m[w[i]].msgs ELSE Append(m[w[i]].msgs, x)
    PROVE  FlattenSeq(MsgsOf(n, w)) = Append(FlattenSeq(MsgsOf(m, w)), x)
<1> DEFINE a == MsgsOf(m, w)
           b == MsgsOf(n, w)
<1>1. a \in Seq(Seq(Msg)) /\ b \in Seq(Seq(Msg)) /\ Len(a) = Len(w) /\ Len(b) = Len(w)
  BY MsgsType
<1>2. \A i \in 1 .. Len(w) : a[i] = m[w[i]].msgs /\ b[i] = n[w[i]].msgs
  BY MsgsType
<1> HIDE DEF a, b
<1>3. \A i \in 1 .. Len(a) : b[i] = IF i < Len(a) THEN a[i] ELSE Append(a[i], x)
  BY <1>1, <1>2
<1>4. a # <<>>
  BY <1>1, SMT
<1>5. FlattenSeq(b) = Append(FlattenSeq(a), x)
  <2>1. Len(b) = Len(a)
    BY <1>1
  <2> QED
    BY <1>1, <1>3, <1>4, <2>1, FlattenLast
<1> QED
  BY <1>5 DEF a, b

LEMMA NoMsgs == \A m : FlattenSeq(MsgsOf(m, <<>>)) = <<>>
<1>1. \A m : MsgsOf(m, <<>>) = <<>>
  BY DEF MsgsOf
<1>2. FlattenSeq(<<>>) = <<>>
  BY DEF FlattenSeq
<1> QED
  BY <1>1, <1>2

LEMMA MsgsFlat ==
    ASSUME NEW m \in [Packets -> PacketType], NEW w \in Seq(Packets)
    PROVE  FlattenSeq(MsgsOf(m, w)) \in Seq(Msg)
  BY MsgsType, FlattenType

-----------------------------------------------------------------------------
(* What a step of one socket leaves to the others                          *)

SameAt(t) ==
    /\ sendingPacket'[t] = sendingPacket[t] /\ lastPacket'[t] = lastPacket[t]
    /\ filling'[t] = filling[t] /\ freeing'[t] = freeing[t]
    /\ posted'[t] = posted[t] /\ completions'[t] = completions[t]
    /\ wire'[t] = wire[t] /\ accepted'[t] = accepted[t]

LEMMA MemNext == ASSUME TypeInv' PROVE mem' \in [Packets -> PacketType]
  BY DEF TypeInv, TypeOK, PacketType, Msg

\* A socket without a queue has nothing posted and no completion; it has at most one
\* of the two.
LEMMA QueueParts ==
    ASSUME TypeInv, InFlightInv, NEW s \in Sockets, NEW k \in Seq(Packets), Listed(s, k)
    PROVE  /\ sendingPacket[s] = Nil <=> k = <<>>
           /\ lastPacket[s] = Nil <=> k = <<>>
           /\ k = <<>> => posted[s] = <<>> /\ completions[s] = 0
           /\ posted[s] # <<>> => completions[s] = 0
           /\ completions[s] > 0 => posted[s] = <<>> /\ completions[s] = 1 /\ k # <<>>
<1>1. k # <<>> => k[1] \in Packets /\ k[Len(k)] \in Packets
  OBVIOUS
<1>2. k # <<>> => k[1] # Nil /\ k[Len(k)] # Nil
  BY <1>1, PacketParts
<1>3. sendingPacket[s] = Nil <=> k = <<>>
  BY <1>2 DEF Listed
<1>4. lastPacket[s] = Nil <=> k = <<>>
  BY <1>2 DEF Listed
<1> QED
  BY <1>3, <1>4 DEF InFlightInv

\* A socket whose queued packets are left alone keeps its queue.
LEMMA QueueKept ==
    ASSUME TypeInv, InFlightInv, TypeInv', NEW t \in Sockets, NEW k \in Seq(Packets),
           Listed(t, k), Posts(t, k), Carries(t, Waiting(t, k)),
           sendingPacket'[t] = sendingPacket[t], lastPacket'[t] = lastPacket[t],
           posted'[t] = posted[t], completions'[t] = completions[t],
           wire'[t] = wire[t], accepted'[t] = accepted[t],
           \A i \in 1 .. Len(k) : mem'[k[i]] = mem[k[i]]
    PROVE  Listed(t, k)' /\ Posts(t, k)' /\ Carries(t, Waiting(t, k))'
<1>1. Listed(t, k)'
  BY DEF Listed
<1>2. Posts(t, k)'
  <2>1. k # <<>> => mem'[k[1]] = mem[k[1]]
    <3>1. k # <<>> => 1 \in 1 .. Len(k)
      OBVIOUS
    <3> QED
      BY <3>1
  <2> QED
    BY <2>1 DEF Posts
<1>3. Carries(t, Waiting(t, k))'
  <2> DEFINE w == Waiting(t, k)
  <2>1. w \in Seq(Packets) /\ \A i \in 1 .. Len(w) : \E j \in 1 .. Len(k) : w[i] = k[j]
    <3>1. CASE ~(completions[t] > 0)
      BY <3>1 DEF Waiting
    <3>2. CASE completions[t] > 0
      <4>0. k # <<>>
        BY <3>2, QueueParts
      <4>1. w = Tail(k)
        BY <3>2 DEF Waiting
      <4>2. /\ Tail(k) \in Seq(Packets)
            /\ \A i \in 1 .. Len(Tail(k)) : i + 1 \in 1 .. Len(k) /\ Tail(k)[i] = k[i + 1]
        BY <4>0
      <4> QED
        BY <4>1, <4>2, Zenon
    <3> QED
      BY <3>1, <3>2
  <2>2. Waiting(t, k)' = w
    BY DEF Waiting
  <2>3. MsgsOf(mem', w) = MsgsOf(mem, w)
    <3>1. mem \in [Packets -> PacketType] /\ mem' \in [Packets -> PacketType]
      BY TypeParts, MemNext
    <3>2. \A i \in 1 .. Len(w) : mem'[w[i]].msgs = mem[w[i]].msgs
      BY <2>1
    <3> HIDE DEF w
    <3> QED
      BY <2>1, <3>1, <3>2, MsgsSame
  <2>4. Carries(t, w)
    OBVIOUS
  <2> HIDE DEF w
  <2> QED
    BY <2>2, <2>3, <2>4 DEF Carries
<1> QED
  BY <1>1, <1>2, <1>3

\* A socket whose packets are left alone keeps all it has.
LEMMA OthersKept ==
    ASSUME TypeInv, InFlightInv, TypeInv', NEW t \in Sockets, NEW k \in Seq(Packets),
           SocketInv(t, k), SameAt(t),
           \A p \in Packets : Uses(t, k, p) => mem'[p] = mem[p]
    PROVE  SocketInv(t, k)'
<1>1. \A i \in 1 .. Len(k) : k[i] \in Packets /\ mem'[k[i]] = mem[k[i]]
  BY DEF Uses
<1>2. Listed(t, k)' /\ Posts(t, k)' /\ Carries(t, Waiting(t, k))'
  BY <1>1, QueueKept DEF SocketInv, SameAt
<1>3. Outside(t, k)'
  <2>1. filling[t] # Nil => mem'[filling[t].packet] = mem[filling[t].packet]
    <3>1. filling[t] # Nil => filling[t].packet \in Packets
      BY FillingParts
    <3> QED
      BY <3>1 DEF Uses
  <2>2. Outside(t, k)
    BY DEF SocketInv
  <2> QED
    BY <2>1, <2>2 DEF SameAt, Outside
<1> QED
  BY <1>2, <1>3 DEF SocketInv

\* A step that neither allocates nor frees, and writes into packets in use only.
LEMMA PoolsKept ==
    ASSUME TypeInv, NEW q \in Queues, NEW r \in Queues, PoolsInv(q),
           UNCHANGED <<live, used>>,
           \A t \in Sockets, p \in Packets : Uses(t, r[t], p)' <=> Uses(t, q[t], p),
           \A p \in Packets : mem'[p] # mem[p] => \E t \in Sockets : Uses(t, q[t], p)
    PROVE  PoolsInv(r)'
<1>1. \A s, t \in Sockets, p \in Packets : Uses(s, r[s], p)' /\ Uses(t, r[t], p)' => s = t
  BY DEF PoolsInv
<1>2. \A c \in Classes, i \in Index :
        live'[c][i] = 1 <=> \E s \in Sockets : Uses(s, r[s], <<c, i>>)'
  <2> SUFFICES ASSUME NEW c \in Classes, NEW i \in Index
               PROVE  live'[c][i] = 1 <=> \E s \in Sockets : Uses(s, r[s], <<c, i>>)'
    OBVIOUS
  <2>1. <<c, i>> \in Packets
    BY DEF Packets
  <2>2. live[c][i] = 1 <=> \E s \in Sockets : Uses(s, q[s], <<c, i>>)
    BY DEF PoolsInv
  <2>3. \A s \in Sockets : Uses(s, r[s], <<c, i>>)' <=> Uses(s, q[s], <<c, i>>)
    BY <2>1
  <2> QED
    BY <2>2, <2>3
<1>3. \A c \in Classes : Out(c)' = Out(c)
  BY DEF Out
<1>4. LentOnce' /\ \A c \in Classes : used'[c] = Cardinality(Out(c)')
  BY <1>3 DEF PoolsInv, LentOnce
<1>5. \A p \in Packets : mem'[p] # Released(p[1]) => live'[p[1]][p[2]] = 1
  <2> SUFFICES ASSUME NEW p \in Packets, mem'[p] # Released(p[1]) PROVE live[p[1]][p[2]] = 1
    OBVIOUS
  <2>1. CASE mem'[p] = mem[p]
    BY <2>1 DEF PoolsInv
  <2>2. CASE mem'[p] # mem[p]
    <3>1. PICK t \in Sockets : Uses(t, q[t], p)
      BY <2>2
    <3>2. p[1] \in Classes /\ p[2] \in Index /\ p = <<p[1], p[2]>>
      BY PacketParts
    <3>3. Uses(t, q[t], <<p[1], p[2]>>)
      BY <3>1, <3>2
    <3> QED
      BY <3>2, <3>3 DEF PoolsInv
  <2> QED
    BY <2>1, <2>2
<1> QED
  BY <1>1, <1>2, <1>4, <1>5 DEF PoolsInv

\* The same for a step of socket s, whose queue is k afterwards.
LEMMA StepKept ==
    ASSUME TypeInv, InFlightInv, TypeInv', NEW q \in Queues, QueueInv(q),
           NEW s \in Sockets, NEW k \in Seq(Packets),
           UNCHANGED <<live, used>>,
           \A t \in Sockets \ {s} : SameAt(t),
           \A p \in Packets : Uses(s, k, p)' <=> Uses(s, q[s], p),
           \A p \in Packets : mem'[p] # mem[p] => Uses(s, q[s], p),
           SocketInv(s, k)'
    PROVE  \E r \in Queues : QueueInv(r)'
<1> DEFINE r == [q EXCEPT ![s] = k]
<1>1. r \in Queues /\ r[s] = k /\ \A t \in Sockets \ {s} : r[t] = q[t]
  BY DEF Queues
<1> HIDE DEF r
<1>2. \A t \in Sockets, p \in Packets : Uses(t, r[t], p)' <=> Uses(t, q[t], p)
  <2> SUFFICES ASSUME NEW t \in Sockets \ {s}, NEW p \in Packets
               PROVE  Uses(t, q[t], p)' <=> Uses(t, q[t], p)
    BY <1>1
  <2> QED
    BY DEF Uses, SameAt
<1>3. PoolsInv(r)'
  BY <1>1, <1>2, PoolsKept DEF QueueInv
<1>4. ASSUME NEW t \in Sockets \ {s} PROVE SocketInv(t, q[t])'
  <2>1. \A p \in Packets : Uses(t, q[t], p) => mem'[p] = mem[p]
    BY DEF QueueInv, PoolsInv
  <2>2. q[t] \in Seq(Packets) /\ SocketInv(t, q[t]) /\ SameAt(t)
    BY DEF Queues, QueueInv
  <2> QED
    BY <2>1, <2>2, OthersKept
<1>5. \A t \in Sockets : SocketInv(t, r[t])'
  BY <1>1, <1>4
<1> QED
  BY <1>1, <1>3, <1>5 DEF QueueInv

\* A message joins the last packet of the queue.
LEMMA AppendKept ==
    ASSUME TypeInv, InFlightInv, TypeInv', NEW q \in Queues, QueueInv(q),
           NEW s \in Sockets, NEW len \in Lens, NEW imm, SendAppend(s, len, imm)
    PROVE  \E r \in Queues : QueueInv(r)'
<1> DEFINE k == q[s]
           n == Len(k)
           p == k[n]
           x == Message(s, len)
<1>1. k \in Seq(Packets) /\ SocketInv(s, k) /\ filling[s] = Nil /\ freeing[s] = Nil
  BY DEF Queues, QueueInv, SendAppend, SendCalled, GuardFree
<1>2. lastPacket[s] = p /\ k # <<>> /\ ~mem[p].sending
  BY <1>1, QueueParts DEF SendAppend, CanAppend, SocketInv, Listed
<1>3. n \in Nat /\ n >= 2 /\ p \in Packets
  <2>1. n \in Nat \ {0} /\ p \in Packets
    BY <1>1, <1>2
  <2>2. n # 1
    BY <1>1, <1>2, <2>1 DEF SocketInv, Listed
  <2> HIDE DEF n, p
  <2> QED
    BY <2>1, <2>2
<1>4. /\ \A i \in 1 .. n : k[i] = p <=> i = n
      /\ \A i \in 1 .. n : k[i] \in Packets
  BY <1>1, <1>3 DEF SocketInv, Listed
<1>5. /\ mem' = [mem EXCEPT ![p].msgs = Append(@, x),
                           ![p].size = @ + len + HDR,
                           ![p].remain = (@ - (len + HDR)) % Wrap]
      /\ accepted' = [accepted EXCEPT ![s] = Append(@, x)]
      /\ UNCHANGED <<sendingPacket, lastPacket, filling, freeing, posted, completions, wire,
                     live, used>>
  BY <1>2 DEF SendAppend, Accept, queues, kernel, pools
<1>6. /\ \A t \in Packets : t # p => mem'[t] = mem[t]
      /\ mem'[p].msgs = Append(mem[p].msgs, x)
      /\ mem'[p].next = mem[p].next /\ mem'[p].sending = mem[p].sending
  <2> DEFINE a == Append(mem[p].msgs, x)
             b == mem[p].size + len + HDR
             c == (mem[p].remain - (len + HDR)) % Wrap
  <2>1. mem[p] \in PacketType /\ mem \in [Packets -> PacketType]
    BY <1>3, TypeParts
  <2>2. mem' = [mem EXCEPT ![p] = [mem[p] EXCEPT !.msgs = a, !.size = b, !.remain = c]]
    BY <1>3, <1>5, <2>1 DEF PacketType
  <2> HIDE DEF a, b, c, p
  <2>3. /\ \A t \in Packets : t # p => mem'[t] = mem[t]
        /\ mem'[p] = [mem[p] EXCEPT !.msgs = a, !.size = b, !.remain = c]
    BY <1>3, <2>1, <2>2
  <2>4. mem'[p].msgs = a /\ mem'[p].next = mem[p].next /\ mem'[p].sending = mem[p].sending
    BY <2>1, <2>3 DEF PacketType
  <2> QED
    BY <2>3, <2>4 DEF a
<1>7. /\ \A t \in Sockets \ {s} : SameAt(t)
      /\ accepted'[s] = Append(accepted[s], x)
  BY <1>5, TypeParts DEF SameAt
<1> HIDE DEF k, p, x
<1>8. Listed(s, k)'
  <2>1. \A i \in 1 .. Len(k) :
          mem'[k[i]].next = mem[k[i]].next /\ mem'[k[i]].sending = mem[k[i]].sending
    BY <1>4, <1>6, Zenon
  <2>2. Listed(s, k)
    BY <1>1 DEF SocketInv
  <2> QED
    BY <1>5, <2>1, <2>2 DEF Listed
<1>9. Outside(s, k)'
  BY <1>1, <1>5 DEF Outside
<1>10. Posts(s, k)'
  <2>1. 1 \in 1 .. n /\ 1 # n
    <3> HIDE DEF n
    <3> QED
      BY <1>3
  <2>2. mem'[k[1]] = mem[k[1]]
    BY <1>4, <1>6, <2>1
  <2> QED
    BY <1>1, <1>5, <2>2 DEF SocketInv, Posts
<1>11. Carries(s, Waiting(s, k))'
  <2> DEFINE w == Waiting(s, k)
  <2>1. /\ w \in Seq(Packets) /\ w # <<>>
        /\ \A i \in 1 .. Len(w) : w[i] \in Packets /\ (w[i] = p <=> i = Len(w))
    <3>1. CASE completions[s] > 0
      <4>1. w = Tail(k)
        BY <3>1 DEF Waiting
      <4>2. /\ Tail(k) \in Seq(Packets) /\ Len(Tail(k)) = n - 1
            /\ \A i \in 1 .. n - 1 : Tail(k)[i] = k[i + 1] /\ i + 1 \in 1 .. n
        BY <1>1, <1>3
      <4>3. Tail(k) # <<>>
        BY <1>3, <4>2
      <4>4. \A i \in 1 .. n - 1 : i = n - 1 <=> i + 1 = n
        BY <1>3
      <4> HIDE DEF n, w
      <4> QED
        BY <1>4, <4>1, <4>2, <4>3, <4>4, Zenon
    <3>2. CASE ~(completions[s] > 0)
      BY <1>1, <1>2, <1>4, <3>2 DEF Waiting
    <3> QED
      BY <3>1, <3>2
  <2>2. Waiting(s, k)' = w
    BY <1>5 DEF Waiting
  <2>3. mem \in [Packets -> PacketType] /\ mem' \in [Packets -> PacketType] /\ x \in Msg
    BY TypeParts, MemNext, MessageType DEF x
  <2> HIDE DEF w
  <2>4. \A i \in 1 .. Len(w) :
          mem'[w[i]].msgs = IF i < Len(w) THEN mem[w[i]].msgs ELSE Append(mem[w[i]].msgs, x)
    <3>1. \A i \in 1 .. Len(w) : i < Len(w) <=> i # Len(w)
      BY <2>1
    <3> QED
      BY <1>6, <2>1, <3>1, Zenon
  <2>5. FlattenSeq(MsgsOf(mem', w)) = Append(FlattenSeq(MsgsOf(mem, w)), x)
    BY <2>1, <2>3, <2>4, MsgsLast
  <2>6. wire[s] \in Seq(Msg) /\ FlattenSeq(MsgsOf(mem, w)) \in Seq(Msg)
    BY <2>1, <2>3, TypeParts, MsgsFlat
  <2>7. wire[s] \o Append(FlattenSeq(MsgsOf(mem, w)), x) = Append(wire[s] \o FlattenSeq(MsgsOf(mem, w)), x)
    <3> DEFINE f == FlattenSeq(MsgsOf(mem, w))
               u == wire[s]
    <3>1. f \in Seq(Msg) /\ u \in Seq(Msg)
      BY <2>6
    <3> HIDE DEF f, u
    <3>2. u \o Append(f, x) = Append(u \o f, x)
      BY <2>3, <3>1, CatAppend
    <3> QED
      BY <3>2 DEF f, u
  <2>8. Carries(s, w)
    BY <1>1 DEF SocketInv, w
  <2> QED
    BY <1>5, <1>7, <2>2, <2>5, <2>7, <2>8 DEF Carries
<1>12. /\ \A t \in Packets : Uses(s, k, t)' <=> Uses(s, k, t)
       /\ \A t \in Packets : mem'[t] # mem[t] => Uses(s, k, t)
  <2>1. n \in 1 .. n
    BY <1>3
  <2> QED
    BY <1>5, <1>6, <2>1 DEF Uses, p
<1> QED
  BY <1>1, <1>5, <1>7, <1>8, <1>9, <1>10, <1>11, <1>12, StepKept DEF SocketInv, k

\* The packet a Send fills is in no queue, and is as Release() left it.
LEMMA FillingUnused ==
    ASSUME TypeInv, NEW s \in Sockets, filling[s] # Nil, NEW k \in Seq(Packets), SocketInv(s, k)
    PROVE  LET p == filling[s].packet IN
           /\ p \in Packets /\ Uses(s, k, p) /\ freeing[s] = Nil
           /\ \A i \in 1 .. Len(k) : k[i] # p
           /\ Filled(s) \in PacketType
           /\ Filled(s).msgs = <<Message(s, filling[s].len)>>
           /\ ~Filled(s).sending /\ Filled(s).next = Nil
<1> DEFINE p == filling[s].packet
<1>1. p \in Packets /\ mem[p] = Released(p[1])
  BY FillingParts DEF SocketInv, Outside
<1>2. mem[p].sending = FALSE /\ mem[p].next = Nil
  BY <1>1 DEF Released
<1> QED
  BY <1>1, <1>2, FilledParts DEF SocketInv, Outside, Uses

\* The first packet of a queue is posted at once.
LEMMA FirstKept ==
    ASSUME TypeInv, InFlightInv, TypeInv', NEW q \in Queues, QueueInv(q),
           NEW s \in Sockets, SendFirst(s)
    PROVE  \E r \in Queues : QueueInv(r)'
<1> DEFINE p == filling[s].packet
           x == Message(s, filling[s].len)
<1>1. filling[s] # Nil /\ sendingPacket[s] = Nil /\ q[s] \in Seq(Packets) /\ SocketInv(s, q[s])
  BY DEF SendFirst, Queues, QueueInv
<1>2. q[s] = <<>> /\ posted[s] = <<>> /\ completions[s] = 0
  BY <1>1, QueueParts DEF SocketInv
<1>3. /\ p \in Packets /\ Uses(s, q[s], p) /\ freeing[s] = Nil
      /\ Filled(s) \in PacketType /\ Filled(s).msgs = <<x>>
      /\ Filled(s).next = Nil
  BY <1>1, FillingUnused
<1>4. /\ mem' = [mem EXCEPT ![p] = [Filled(s) EXCEPT !.sending = TRUE]]
      /\ sendingPacket' = [sendingPacket EXCEPT ![s] = p]
      /\ lastPacket' = [lastPacket EXCEPT ![s] = p]
      /\ Post(s, p, mem')
      /\ accepted' = [accepted EXCEPT ![s] = Append(@, x)]
      /\ filling' = [filling EXCEPT ![s] = Nil]
      /\ UNCHANGED <<freeing, completions, wire, live, used>>
  BY DEF SendFirst, Accept, pools
<1>5. /\ \A t \in Packets : t # p => mem'[t] = mem[t]
      /\ mem'[p].msgs = <<x>> /\ mem'[p].next = Nil /\ mem'[p].sending = TRUE
  <2>1. \A t \in Packets : mem'[t] = IF t = p THEN [Filled(s) EXCEPT !.sending = TRUE] ELSE mem[t]
    BY <1>3, <1>4, TypeParts
  <2> HIDE DEF p, x
  <2>2. mem'[p] = [Filled(s) EXCEPT !.sending = TRUE]
    BY <1>3, <2>1
  <2> QED
    BY <1>3, <2>1, <2>2 DEF PacketType
<1>6. /\ \A t \in Sockets : t # s => posted'[t] = posted[t]
      /\ posted'[s] = <<>> \/ posted'[s] = <<[packet |-> p, len |-> Len(mem'[p].msgs)]>>
  <2> DEFINE y == [packet |-> p, len |-> Len(mem'[p].msgs)]
  <2>1. posted' = posted \/ posted' = [posted EXCEPT ![s] = Append(@, y)]
    BY <1>4 DEF Post
  <2> HIDE DEF y
  <2>2. posted'[s] = <<>> \/ posted'[s] = Append(<<>>, y)
    BY <1>2, <2>1, TypeParts
  <2>3. Append(<<>>, y) = <<y>>
    OBVIOUS
  <2> QED
    BY <2>1, <2>2, <2>3, TypeParts DEF y
<1>7. /\ \A t \in Sockets \ {s} : SameAt(t)
      /\ sendingPacket'[s] = p /\ lastPacket'[s] = p /\ filling'[s] = Nil
      /\ accepted'[s] = Append(accepted[s], x)
  BY <1>4, <1>6, TypeParts DEF SameAt
<1> HIDE DEF p, x
<1>8. PICK k \in Seq(Packets) :
        /\ k = <<p>> /\ k # <<>> /\ Len(k) = 1 /\ k[1] = p
        /\ \A i \in 1 .. Len(k) : i = 1 /\ k[i] = p
  <2> DEFINE k == <<p>>
  <2>1. /\ k \in Seq(Packets) /\ k # <<>> /\ Len(k) = 1 /\ k[1] = p
        /\ \A i \in 1 .. Len(k) : i = 1 /\ k[i] = p
    BY <1>3
  <2> HIDE DEF k
  <2>2. k = <<p>>
    BY DEF k
  <2> QED
    BY <2>1, <2>2
<1>9. Listed(s, k)'
  BY <1>5, <1>7, <1>8 DEF Listed
<1>10. Outside(s, k)'
  BY <1>3, <1>4, <1>7 DEF Outside
<1>11. Posts(s, k)'
  BY <1>6, <1>8 DEF Posts
<1>12. Carries(s, Waiting(s, k))'
  <2>1. Waiting(s, k)' = k
    BY <1>2, <1>4 DEF Waiting
  <2>2. mem' \in [Packets -> PacketType] /\ mem \in [Packets -> PacketType]
    BY MemNext, TypeParts
  <2>3. FlattenSeq(MsgsOf(mem', k)) = <<x>>
    <3>1. FlattenSeq(MsgsOf(mem', Append(<<>>, p))) = FlattenSeq(MsgsOf(mem', <<>>)) \o mem'[p].msgs
      <4>1. <<>> \in Seq(Packets)
        OBVIOUS
      <4> QED
        BY <1>3, <2>2, <4>1, MsgsAppend
    <3>2. Append(<<>>, p) = k
      BY <1>8
    <3>3. FlattenSeq(MsgsOf(mem', <<>>)) = <<>>
      BY NoMsgs
    <3>4. <<>> \o <<x>> = <<x>>
      OBVIOUS
    <3> QED
      BY <1>5, <3>1, <3>2, <3>3, <3>4
  <2>4. accepted[s] = wire[s]
    <3>1. Waiting(s, <<>>) = <<>>
      BY <1>2 DEF Waiting
    <3>2. wire[s] \o FlattenSeq(MsgsOf(mem, <<>>)) = accepted[s]
      BY <1>1, <1>2, <3>1 DEF SocketInv, Carries
    <3>3. FlattenSeq(MsgsOf(mem, <<>>)) = <<>> /\ wire[s] \in Seq(Msg)
      BY NoMsgs, TypeParts
    <3>4. \A u \in Seq(Msg) : u \o <<>> = u
      BY ConcatEmptySeq
    <3> QED
      BY <3>2, <3>3, <3>4
  <2>5. wire[s] \o <<x>> = Append(wire[s], x)
    <3>1. x \in Msg /\ wire[s] \in Seq(Msg)
      BY <1>1, FillingParts, MessageType, TypeParts DEF x
    <3> QED
      BY <3>1, AppendIsConcat
  <2> QED
    BY <1>4, <1>7, <2>1, <2>3, <2>4, <2>5 DEF Carries
<1>13. /\ \A t \in Packets : Uses(s, k, t)' <=> Uses(s, q[s], t)
       /\ \A t \in Packets : mem'[t] # mem[t] => Uses(s, q[s], t)
  <2>1. \A t : Uses(s, k, t)' <=> t = p
    BY <1>3, <1>4, <1>7, <1>8 DEF Uses
  <2>2. \A t : Uses(s, q[s], t) <=> t = p
    <3>1. \A i \in 1 .. Len(<<>>) : FALSE
      OBVIOUS
    <3> QED
      BY <1>1, <1>2, <1>3, <3>1 DEF Uses, p
  <2> QED
    BY <1>5, <2>1, <2>2
<1> QED
  BY <1>4, <1>7, <1>8, <1>9, <1>10, <1>11, <1>12, <1>13, StepKept DEF SocketInv

\* Another packet goes to the end of the queue.
LEMMA QueuedKept ==
    ASSUME TypeInv, InFlightInv, TypeInv', NEW q \in Queues, QueueInv(q),
           NEW s \in Sockets, SendQueued(s)
    PROVE  \E r \in Queues : QueueInv(r)'
<1> DEFINE p == filling[s].packet
           x == Message(s, filling[s].len)
           old == q[s]
           n == Len(old)
           last == old[n]
<1>1. filling[s] # Nil /\ sendingPacket[s] # Nil /\ old \in Seq(Packets) /\ SocketInv(s, old)
  BY DEF SendQueued, Queues, QueueInv
<1>2. old # <<>> /\ lastPacket[s] = last
  BY <1>1, QueueParts DEF SocketInv, Listed
<1>3. /\ p \in Packets /\ Uses(s, old, p) /\ freeing[s] = Nil
      /\ \A i \in 1 .. n : old[i] # p
      /\ Filled(s) \in PacketType /\ Filled(s).msgs = <<x>>
      /\ Filled(s).next = Nil /\ ~Filled(s).sending
  BY <1>1, FillingUnused
<1>4. /\ mem' = [[mem EXCEPT ![p] = Filled(s)] EXCEPT ![last].next = p]
      /\ lastPacket' = [lastPacket EXCEPT ![s] = p]
      /\ accepted' = [accepted EXCEPT ![s] = Append(@, x)]
      /\ filling' = [filling EXCEPT ![s] = Nil]
      /\ UNCHANGED <<sendingPacket, freeing, posted, completions, wire, live, used>>
  BY <1>2 DEF SendQueued, Accept, kernel, pools
<1>5. /\ n \in Nat \ {0} /\ last \in Packets /\ last # p
      /\ \A i \in 1 .. n : old[i] \in Packets /\ (old[i] = last <=> i = n)
  <2>1. n \in Nat \ {0} /\ \A i \in 1 .. n : old[i] \in Packets
    BY <1>1, <1>2
  <2>2. \A i, j \in 1 .. n : old[i] = old[j] => i = j
    BY <1>1 DEF SocketInv, Listed
  <2> HIDE DEF n, old, p
  <2>3. n \in 1 .. n
    BY <2>1
  <2> QED
    BY <1>3, <2>1, <2>2, <2>3
<1> HIDE DEF n, old, last, p, x
<1>6. /\ \A t \in Packets : t # p /\ t # last => mem'[t] = mem[t]
      /\ mem'[p] = Filled(s)
      /\ mem'[last].msgs = mem[last].msgs /\ mem'[last].sending = mem[last].sending
      /\ mem'[last].next = p
  <2> DEFINE m == [mem EXCEPT ![p] = Filled(s)]
  <2>1. m \in [Packets -> PacketType] /\ \A t \in Packets : m[t] = IF t = p THEN Filled(s) ELSE mem[t]
    BY <1>3, TypeParts
  <2>2. mem' = [m EXCEPT ![last] = [m[last] EXCEPT !.next = p]]
    BY <1>4
  <2> HIDE DEF m
  <2>3. \A t \in Packets : mem'[t] = IF t = last THEN [m[last] EXCEPT !.next = p] ELSE m[t]
    BY <2>1, <2>2
  <2>4. m[last] = mem[last] /\ m[last] \in PacketType
    BY <1>5, <2>1
  <2>5. mem'[last] = [mem[last] EXCEPT !.next = p]
    BY <1>5, <2>3, <2>4
  <2>6. mem'[p] = Filled(s)
    BY <1>3, <1>5, <2>1, <2>3
  <2> QED
    BY <1>5, <2>1, <2>3, <2>4, <2>5, <2>6 DEF PacketType
<1>7. /\ \A t \in Sockets \ {s} : SameAt(t)
      /\ lastPacket'[s] = p /\ filling'[s] = Nil
      /\ accepted'[s] = Append(accepted[s], x)
  BY <1>4, TypeParts DEF SameAt
<1>8. PICK k \in Seq(Packets) :
        /\ k = Append(old, p) /\ k # <<>> /\ Len(k) = n + 1 /\ k[n + 1] = p
        /\ \A i \in 1 .. n : k[i] = old[i]
        /\ \A i \in 1 .. n + 1 : i \in 1 .. n \/ i = n + 1
  <2> DEFINE k == Append(old, p)
  <2>1. k \in Seq(Packets) /\ Len(k) = n + 1 /\ k[n + 1] = p
    BY <1>1, <1>3 DEF n
  <2>2. \A i \in 1 .. n : k[i] = old[i]
    BY <1>1, <1>3 DEF n
  <2>3. \A i \in 1 .. n + 1 : i \in 1 .. n \/ i = n + 1
    BY <1>5
  <2> HIDE DEF k
  <2>4. k = Append(old, p)
    BY DEF k
  <2>5. k # <<>>
    BY <1>5, <2>1
  <2> QED
    BY <2>1, <2>2, <2>3, <2>4, <2>5
<1>9. Listed(s, k)'
  <2>0. Listed(s, old) /\ Len(old) = n
    BY <1>1 DEF SocketInv, n
  <2>1. \A i, j \in 1 .. n + 1 : k[i] = k[j] => i = j
    <3>1. \A i, j \in 1 .. n : old[i] = old[j] => i = j
      BY <2>0 DEF Listed
    <3> QED
      BY <1>3, <1>8, <3>1, Zenon
  <2>2. sendingPacket'[s] = k[1]
    <3>1. 1 \in 1 .. n
      BY <1>5
    <3> QED
      BY <1>2, <1>4, <1>8, <2>0, <3>1 DEF Listed
  <2>3. \A i \in 1 .. n + 1 : mem'[k[i]].next = IF i < n + 1 THEN k[i + 1] ELSE Nil
    <3>1. ASSUME NEW i \in 1 .. n, i # n PROVE mem'[k[i]].next = k[i + 1] /\ i < n + 1
      <4>1. i + 1 \in 1 .. n /\ i < n /\ i < n + 1
        BY <1>5, <3>1
      <4>2. mem[old[i]].next = old[i + 1]
        BY <2>0, <3>1, <4>1 DEF Listed
      <4>3. mem'[k[i]] = mem[old[i]]
        BY <1>3, <1>5, <1>6, <1>8, <3>1, Zenon
      <4> QED
        BY <1>8, <4>1, <4>2, <4>3
    <3>2. mem'[k[n]].next = k[n + 1] /\ n < n + 1 /\ n \in 1 .. n
      <4>1. n \in 1 .. n /\ n < n + 1
        BY <1>5
      <4> QED
        BY <1>6, <1>8, <4>1 DEF last
    <3>3. mem'[k[n + 1]].next = Nil /\ ~(n + 1 < n + 1)
      BY <1>3, <1>5, <1>6, <1>8
    <3> QED
      BY <1>8, <3>1, <3>2, <3>3, Zenon
  <2>4. \A i \in 1 .. n + 1 : mem'[k[i]].sending <=> i = 1
    <3>1. ASSUME NEW i \in 1 .. n PROVE mem'[k[i]].sending <=> i = 1
      <4>1. mem[old[i]].sending <=> i = 1
        BY <2>0 DEF Listed
      <4>2. mem'[k[i]].sending = mem[old[i]].sending
        BY <1>3, <1>5, <1>6, <1>8, Zenon
      <4> QED
        BY <4>1, <4>2
    <3>2. ~mem'[k[n + 1]].sending /\ n + 1 # 1
      BY <1>3, <1>5, <1>6, <1>8
    <3> QED
      BY <1>8, <3>1, <3>2, Zenon
  <2> QED
    BY <1>7, <1>8, <2>1, <2>2, <2>3, <2>4 DEF Listed
<1>10. Outside(s, k)'
  BY <1>3, <1>4, <1>7 DEF Outside
<1>11. k[1] = old[1] /\ mem'[k[1]].msgs = mem[old[1]].msgs
  <2>1. 1 \in 1 .. n
    BY <1>5
  <2> QED
    BY <1>3, <1>5, <1>6, <1>8, <2>1, Zenon
<1>12. Posts(s, k)'
  BY <1>1, <1>4, <1>8, <1>11 DEF SocketInv, Posts
<1>13. Carries(s, Waiting(s, k))'
  <2> DEFINE w == Waiting(s, old)
  <2>1. w \in Seq(Packets) /\ Waiting(s, k)' = Append(w, p)
    <3>1. CASE completions[s] > 0
      <4>1. Tail(Append(old, p)) = Append(Tail(old), p) /\ Tail(old) \in Seq(Packets)
        BY <1>1, <1>2, <1>3, TailOfMore, TailType
      <4> QED
        BY <1>4, <1>8, <3>1, <4>1 DEF Waiting
    <3>2. CASE ~(completions[s] > 0)
      BY <1>1, <1>4, <1>8, <3>2 DEF Waiting
    <3> QED
      BY <3>1, <3>2
  <2>2. \A i \in 1 .. Len(w) : \E j \in 1 .. n : w[i] = old[j]
    <3>1. CASE completions[s] > 0
      <4>1. \A i \in 1 .. Len(Tail(old)) : i + 1 \in 1 .. n /\ Tail(old)[i] = old[i + 1]
        BY <1>1, <1>2 DEF n
      <4> QED
        BY <3>1, <4>1, Zenon DEF Waiting
    <3>2. CASE ~(completions[s] > 0)
      BY <3>2 DEF Waiting, n
    <3> QED
      BY <3>1, <3>2
  <2>3. mem' \in [Packets -> PacketType] /\ mem \in [Packets -> PacketType]
    BY MemNext, TypeParts
  <2>4. Carries(s, w)
    BY <1>1 DEF SocketInv
  <2> HIDE DEF w
  <2>5. MsgsOf(mem', w) = MsgsOf(mem, w)
    <3>1. \A i \in 1 .. n : mem'[old[i]].msgs = mem[old[i]].msgs
      BY <1>3, <1>5, <1>6, Zenon
    <3>2. \A i \in 1 .. Len(w) : mem'[w[i]].msgs = mem[w[i]].msgs
      BY <2>2, <3>1, Zenon
    <3> QED
      BY <2>1, <2>3, <3>2, MsgsSame
  <2> DEFINE f == FlattenSeq(MsgsOf(mem, w))
             u == wire[s]
  <2>6. FlattenSeq(MsgsOf(mem', Append(w, p))) = f \o <<x>>
    BY <1>3, <1>6, <2>1, <2>3, <2>5, MsgsAppend
  <2>7. f \in Seq(Msg) /\ u \in Seq(Msg) /\ x \in Msg
    BY <1>1, <2>1, <2>3, MsgsFlat, TypeParts, FillingParts, MessageType DEF x
  <2>8. u \o f = accepted[s]
    BY <2>4 DEF Carries
  <2> HIDE DEF f, u
  <2>9. u \o (f \o <<x>>) = Append(u \o f, x)
    BY <2>7, AppendIsConcat, CatAppend
  <2> QED
    BY <1>4, <1>7, <2>1, <2>6, <2>8, <2>9 DEF Carries, u
<1>14. /\ \A t \in Packets : Uses(s, k, t)' <=> Uses(s, old, t)
       /\ \A t \in Packets : mem'[t] # mem[t] => Uses(s, old, t)
  <2>0. filling'[s] = Nil /\ freeing'[s] = Nil /\ Len(old) = n /\ n \in 1 .. n /\ n + 1 \in 1 .. n + 1
    BY <1>3, <1>4, <1>5, <1>7 DEF n
  <2>1. \A t \in Packets : Uses(s, k, t)' <=> \E i \in 1 .. n + 1 : k[i] = t
    BY <1>8, <2>0 DEF Uses
  <2>2. \A t \in Packets : Uses(s, old, t) <=> (\E i \in 1 .. n : old[i] = t) \/ t = p
    BY <1>1, <1>3, <2>0 DEF Uses, p
  <2>3. \A i \in 1 .. n : i \in 1 .. n + 1
    BY <1>5
  <2>4. \A t \in Packets : (\E i \in 1 .. n + 1 : k[i] = t) <=> (\E i \in 1 .. n : old[i] = t) \/ t = p
    BY <1>8, <2>0, <2>3, Zenon
  <2>5. \A t \in Packets : mem'[t] # mem[t] => (\E i \in 1 .. n : old[i] = t) \/ t = p
    BY <1>6, <2>0, Zenon DEF last
  <2> QED
    BY <2>1, <2>2, <2>4, <2>5
<1> QED
  BY <1>4, <1>7, <1>8, <1>9, <1>10, <1>12, <1>13, <1>14, StepKept DEF SocketInv, old

\* The packet that was sent leaves the queue, and the next one is posted.
LEMMA CallbackKept ==
    ASSUME TypeInv, InFlightInv, TypeInv', NEW q \in Queues, QueueInv(q),
           NEW s \in Sockets, WriteCallback(s)
    PROVE  \E r \in Queues : QueueInv(r)'
<1> DEFINE old == q[s]
           p == old[1]
           next == mem[p].next
<1>1. /\ old \in Seq(Packets) /\ SocketInv(s, old)
      /\ filling[s] = Nil /\ freeing[s] = Nil /\ completions[s] > 0
  BY DEF WriteCallback, GuardFree, Queues, QueueInv
<1>2. old # <<>> /\ posted[s] = <<>> /\ completions[s] = 1 /\ sendingPacket[s] = p
  BY <1>1, QueueParts DEF SocketInv, Listed
<1>3. PICK k \in Seq(Packets) :
        /\ k = Tail(old) /\ Len(old) = Len(k) + 1
        /\ \A i \in 1 .. Len(k) : i + 1 \in 1 .. Len(old) /\ k[i] = old[i + 1]
        /\ \A i \in 1 .. Len(old) : i = 1 \/ \E j \in 1 .. Len(k) : i = j + 1
  <2>1. Tail(old) \in Seq(Packets) /\ Len(old) = Len(Tail(old)) + 1
    BY <1>1, <1>2
  <2>2. \A i \in 1 .. Len(Tail(old)) : i + 1 \in 1 .. Len(old) /\ Tail(old)[i] = old[i + 1]
    BY <1>1, <1>2
  <2>3. \A i \in 1 .. Len(old) : i = 1 \/ \E j \in 1 .. Len(Tail(old)) : i = j + 1
    <3>1. \A i \in 1 .. Len(old) : i = 1 \/ (i - 1 \in 1 .. Len(Tail(old)) /\ (i - 1) + 1 = i)
      BY <1>1, <1>2
    <3> QED
      BY <3>1
  <2> QED
    BY <2>1, <2>2, <2>3
<1> HIDE DEF old
<1>4. 1 \in 1 .. Len(old) /\ Len(k) \in Nat /\ p \in Packets
  BY <1>1, <1>3
<1>5. \A i, j \in 1 .. Len(old) : old[i] = old[j] => i = j
  BY <1>1 DEF SocketInv, Listed
<1>6. \A i \in 1 .. Len(old) : /\ mem[old[i]].next = IF i < Len(old) THEN old[i + 1] ELSE Nil
                               /\ mem[old[i]].sending <=> i = 1
  BY <1>1 DEF SocketInv, Listed
<1>7. /\ next = IF k = <<>> THEN Nil ELSE k[1]
      /\ k # <<>> => k[1] \in Packets /\ k[1] # Nil
  <2>1. k # <<>> => 1 \in 1 .. Len(k) /\ k[1] \in Packets
    OBVIOUS
  <2>2. 1 < Len(old) <=> k # <<>>
    <3>1. Len(k) \in Nat /\ (k # <<>> <=> Len(k) # 0)
      OBVIOUS
    <3>2. Len(old) = Len(k) + 1
      BY <1>3
    <3> QED
      BY <3>1, <3>2
  <2> QED
    BY <1>3, <1>4, <1>6, <2>1, <2>2, PacketParts
<1>8. /\ completions' = [completions EXCEPT ![s] = @ - 1]
      /\ freeing' = [freeing EXCEPT ![s] = p]
      /\ sendingPacket' = [sendingPacket EXCEPT ![s] = next]
      /\ UNCHANGED <<filling, wire, accepted, live, used>>
  BY <1>2 DEF WriteCallback, pools
<1> HIDE DEF p, next
<1>9. /\ completions'[s] = 0 /\ freeing'[s] = p /\ sendingPacket'[s] = next
      /\ \A t \in Sockets \ {s} : /\ completions'[t] = completions[t] /\ freeing'[t] = freeing[t]
                                  /\ sendingPacket'[t] = sendingPacket[t]
  BY <1>2, <1>8, TypeParts
<1>10. CASE k = <<>>
  <2>1. next = Nil
    BY <1>7, <1>10
  <2>2. lastPacket' = [lastPacket EXCEPT ![s] = Nil] /\ UNCHANGED <<mem, posted>>
    BY <1>2, <2>1 DEF WriteCallback, next
  <2>3. \A i \in 1 .. Len(k) : FALSE
    BY <1>10
  <2>4. \A t \in Sockets \ {s} : SameAt(t)
    BY <1>8, <1>9, <2>2, TypeParts DEF SameAt
  <2>5. Listed(s, k)'
    BY <1>9, <1>10, <2>1, <2>2, <2>3, TypeParts DEF Listed
  <2>6. Outside(s, k)' /\ Posts(s, k)'
    BY <1>1, <1>2, <1>8, <2>2, <2>3 DEF Outside, Posts
  <2>7. Carries(s, Waiting(s, k))'
    <3>1. Waiting(s, k)' = k
      BY <1>9 DEF Waiting
    <3>2. Waiting(s, old) = k /\ Carries(s, Waiting(s, old))
      BY <1>1, <1>3 DEF Waiting, SocketInv
    <3> QED
      BY <1>8, <2>2, <3>1, <3>2 DEF Carries
  <2>8. \A t \in Packets : Uses(s, k, t)' <=> Uses(s, old, t)
    <3>1. \A t \in Packets : Uses(s, k, t)' <=> t = p
      BY <1>1, <1>8, <1>9, <1>4, <2>3, PacketParts DEF Uses
    <3>2. \A t \in Packets : Uses(s, old, t) <=> t = p
      BY <1>1, <1>3, <1>4, <2>3 DEF Uses, p
    <3> QED
      BY <3>1, <3>2
  <2> QED
    BY <1>8, <2>2, <2>4, <2>5, <2>6, <2>7, <2>8, StepKept DEF SocketInv, old
<1>11. CASE k # <<>>
  <2>1. next = k[1] /\ next \in Packets /\ next # Nil /\ 1 \in 1 .. Len(k)
    BY <1>7, <1>11
  <2>2. mem' = [mem EXCEPT ![next] = [mem[next] EXCEPT !.sending = TRUE]] /\ Post(s, next, mem')
        /\ lastPacket' = lastPacket
    BY <1>2, <2>1 DEF WriteCallback, next
  <2>3. /\ \A t \in Packets : t # next => mem'[t] = mem[t]
        /\ mem'[next].sending = TRUE /\ mem'[next].next = mem[next].next
        /\ mem'[next].msgs = mem[next].msgs
    <3>1. \A t \in Packets : mem'[t] = IF t = next THEN [mem[next] EXCEPT !.sending = TRUE] ELSE mem[t]
      BY <2>1, <2>2, TypeParts
    <3>2. mem[next] \in PacketType /\ mem'[next] = [mem[next] EXCEPT !.sending = TRUE]
      BY <2>1, <3>1, TypeParts
    <3> QED
      BY <3>1, <3>2 DEF PacketType
  <2>4. /\ \A t \in Sockets : t # s => posted'[t] = posted[t]
        /\ posted'[s] = <<>> \/ posted'[s] = <<[packet |-> next, len |-> Len(mem'[next].msgs)]>>
    <3> DEFINE y == [packet |-> next, len |-> Len(mem'[next].msgs)]
    <3>1. posted' = posted \/ posted' = [posted EXCEPT ![s] = Append(@, y)]
      BY <2>2 DEF Post
    <3> HIDE DEF y
    <3>2. posted'[s] = <<>> \/ posted'[s] = Append(<<>>, y)
      BY <1>2, <3>1, TypeParts
    <3>3. Append(<<>>, y) = <<y>>
      OBVIOUS
    <3> QED
      BY <3>1, <3>2, <3>3, TypeParts DEF y
  <2>5. \A t \in Sockets \ {s} : SameAt(t)
    BY <1>8, <1>9, <2>2, <2>4 DEF SameAt
  <2>6. \A i \in 1 .. Len(k) : k[i] \in Packets /\ (k[i] = next <=> i = 1)
    <3>1. \A i \in 1 .. Len(k) : i + 1 = 1 + 1 <=> i = 1
      OBVIOUS
    <3>2. k[1] = old[1 + 1] /\ 1 + 1 \in 1 .. Len(old)
      BY <1>3, <2>1
    <3>3. \A i \in 1 .. Len(k) : k[i] \in Packets
      OBVIOUS
    <3>4. \A i \in 1 .. Len(k) : k[i] = old[i + 1] /\ i + 1 \in 1 .. Len(old)
      BY <1>3
    <3>5. \A i \in 1 .. Len(k) : k[i] = k[1] <=> i = 1
      BY <1>5, <3>1, <3>2, <3>4, Zenon
    <3> QED
      BY <2>1, <3>3, <3>5, Zenon
  <2>7. Listed(s, k)'
    <3>1. \A i, j \in 1 .. Len(k) : k[i] = k[j] => i = j
      <4>1. \A i, j \in 1 .. Len(k) : i + 1 = j + 1 => i = j
        OBVIOUS
      <4> QED
        BY <1>3, <1>5, <4>1
    <3>2. lastPacket'[s] = k[Len(k)]
      <4>1. lastPacket[s] = old[Len(old)]
        BY <1>1, <1>4 DEF SocketInv, Listed
      <4>2. k[Len(k)] = old[Len(old)]
        BY <1>3, <1>4, <2>1
      <4> QED
        BY <2>2, <4>1, <4>2
    <3>3. \A i \in 1 .. Len(k) : mem'[k[i]].next = IF i < Len(k) THEN k[i + 1] ELSE Nil
      <4>1. \A i \in 1 .. Len(k) : mem'[k[i]].next = mem[k[i]].next
        BY <2>3, <2>6, Zenon
      <4>2. \A i \in 1 .. Len(k) : mem[k[i]].next = IF i + 1 < Len(old) THEN old[(i + 1) + 1] ELSE Nil
        BY <1>3, <1>6
      <4>3. \A i \in 1 .. Len(k) : /\ i + 1 < Len(old) <=> i < Len(k)
                                   /\ i < Len(k) => k[i + 1] = old[(i + 1) + 1]
        <5>1. \A i \in 1 .. Len(k) : /\ i + 1 < Len(old) <=> i < Len(k)
                                     /\ i < Len(k) => i + 1 \in 1 .. Len(k)
          BY <1>3
        <5> QED
          BY <1>3, <5>1, Zenon
      <4> QED
        BY <4>1, <4>2, <4>3
    <3>4. \A i \in 1 .. Len(k) : mem'[k[i]].sending <=> i = 1
      <4>1. \A i \in 1 .. Len(k) : i # 1 => ~mem[k[i]].sending
        <5>1. \A i \in 1 .. Len(k) : i + 1 # 1
          OBVIOUS
        <5> QED
          BY <1>3, <1>6, <5>1, Zenon
      <4>2. \A i \in 1 .. Len(k) : i # 1 => mem'[k[i]] = mem[k[i]]
        BY <2>3, <2>6, Zenon
      <4> QED
        BY <2>1, <2>3, <4>1, <4>2
    <3> QED
      BY <1>9, <1>11, <2>1, <3>1, <3>2, <3>3, <3>4 DEF Listed
  <2>8. Outside(s, k)'
    <3>1. \A i \in 1 .. Len(k) : k[i] # p
      <4>1. \A i \in 1 .. Len(k) : i + 1 # 1
        OBVIOUS
      <4> QED
        BY <1>3, <1>4, <1>5, <4>1, Zenon DEF p
    <3> QED
      BY <1>1, <1>8, <1>9, <3>1 DEF Outside
  <2>9. Posts(s, k)'
    BY <1>11, <2>1, <2>4 DEF Posts
  <2>10. Carries(s, Waiting(s, k))'
    <3>1. Waiting(s, k)' = k
      BY <1>9 DEF Waiting
    <3>2. Waiting(s, old) = k /\ Carries(s, Waiting(s, old))
      BY <1>1, <1>3 DEF Waiting, SocketInv
    <3>3. \A i \in 1 .. Len(k) : mem'[k[i]].msgs = mem[k[i]].msgs
      BY <2>3, <2>6, Zenon
    <3>4. MsgsOf(mem', k) = MsgsOf(mem, k)
      BY <3>3, MsgsSame, MemNext, TypeParts
    <3> QED
      BY <1>8, <3>1, <3>2, <3>4 DEF Carries
  <2>11. /\ \A t \in Packets : Uses(s, k, t)' <=> Uses(s, old, t)
         /\ \A t \in Packets : mem'[t] # mem[t] => Uses(s, old, t)
    <3>1. \A t \in Packets : Uses(s, k, t)' <=> (\E i \in 1 .. Len(k) : k[i] = t) \/ t = p
      BY <1>1, <1>4, <1>8, <1>9, PacketParts DEF Uses
    <3>2. \A t \in Packets : Uses(s, old, t) <=> \E i \in 1 .. Len(old) : old[i] = t
      BY <1>1 DEF Uses
    <3>3. \A t \in Packets : (\E i \in 1 .. Len(old) : old[i] = t)
                             <=> (\E i \in 1 .. Len(k) : k[i] = t) \/ t = p
      <4>1. ASSUME NEW i \in 1 .. Len(old)
            PROVE  (\E j \in 1 .. Len(k) : k[j] = old[i]) \/ old[i] = p
        <5>1. CASE i = 1
          BY <5>1 DEF p
        <5>2. CASE i # 1
          <6>1. PICK j \in 1 .. Len(k) : i = j + 1
            BY <1>3, <5>2
          <6>2. k[j] = old[i]
            BY <1>3, <6>1
          <6> QED
            BY <6>2
        <5> QED
          BY <5>1, <5>2
      <4>2. \A j \in 1 .. Len(k) : \E i \in 1 .. Len(old) : old[i] = k[j]
        BY <1>3, Zenon
      <4>3. \E i \in 1 .. Len(old) : old[i] = p
        BY <1>4, Zenon DEF p
      <4> QED
        BY <4>1, <4>2, <4>3, Zenon
    <3>4. \A t \in Packets : mem'[t] # mem[t] => \E i \in 1 .. Len(k) : k[i] = t
      BY <2>1, <2>3, Zenon
    <3> QED
      BY <3>1, <3>2, <3>3, <3>4
  <2> QED
    BY <1>8, <2>5, <2>7, <2>8, <2>9, <2>10, <2>11, StepKept DEF SocketInv, old
<1> QED
  BY <1>10, <1>11

\* The kernel and the peer.
LEMMA KernelKept ==
    ASSUME TypeInv, InFlightInv, TypeInv', NEW q \in Queues, QueueInv(q),
           NEW s \in Sockets, Kernel(s)
    PROVE  \E r \in Queues : QueueInv(r)'
<1> DEFINE k == q[s]
<1>1. k \in Seq(Packets) /\ SocketInv(s, k)
  BY DEF Queues, QueueInv
<1> HIDE DEF k
<1>2. UNCHANGED <<mem, sendingPacket, lastPacket, filling, freeing, accepted, live, used>>
  BY DEF Kernel, Transmit, BreakConnection, FailPosted, queues, pools
<1>3. Listed(s, k)' /\ Outside(s, k)'
  BY <1>1, <1>2 DEF SocketInv, Listed, Outside
<1>4. /\ \A t \in Packets : Uses(s, k, t)' <=> Uses(s, k, t)
      /\ \A t \in Packets : mem'[t] # mem[t] => Uses(s, k, t)
  BY <1>2 DEF Uses
<1>5. CASE Transmit(s)
  <2> DEFINE y == [packet |-> k[1], len |-> Len(mem[k[1]].msgs)]
             u == wire[s]
             v == mem[k[1]].msgs
             f == FlattenSeq(MsgsOf(mem, Tail(k)))
  <2>1. posted[s] = <<y>> /\ k # <<>> /\ completions[s] = 0 /\ k[1] \in Packets
    BY <1>1, <1>5, QueueParts, TailType DEF Transmit, SocketInv, Posts
  <2>2. \A x : Head(<<x>>) = x /\ Tail(<<x>>) = <<>>
    OBVIOUS
  <2>3. v \in Seq(Msg)
    BY <2>1, TypeParts DEF PacketType
  <2>4. SubSeq(v, 1, Len(v)) = v
    BY <2>3, SubSeqFull
  <2>5. /\ wire' = [wire EXCEPT ![s] = u \o v]
        /\ posted' = [posted EXCEPT ![s] = <<>>]
        /\ completions' = [completions EXCEPT ![s] = @ + 1]
    <3>1. y.packet = k[1] /\ y.len = Len(v)
      OBVIOUS
    <3> HIDE DEF y
    <3>2. Head(posted[s]) = y /\ Tail(posted[s]) = <<>>
      BY <2>1, <2>2
    <3>3. SubSeq(mem[y.packet].msgs, 1, y.len) = v
      BY <2>4, <3>1
    <3> HIDE DEF v
    <3> QED
      BY <1>5, <3>2, <3>3 DEF Transmit
  <2>6. \A t \in Sockets \ {s} : SameAt(t)
    BY <1>2, <2>5, TypeParts DEF SameAt
  <2>7. posted'[s] = <<>> /\ completions'[s] = 1 /\ wire'[s] = u \o v
    BY <2>1, <2>5, TypeParts
  <2>8. Posts(s, k)'
    BY <2>7 DEF Posts
  <2>9. Carries(s, Waiting(s, k))'
    <3>1. Waiting(s, k)' = Tail(k) /\ Waiting(s, k) = k
      BY <2>1, <2>7 DEF Waiting
    <3>2. u \o FlattenSeq(MsgsOf(mem, k)) = accepted[s]
      BY <1>1, <3>1 DEF SocketInv, Carries
    <3>3. FlattenSeq(MsgsOf(mem, k)) = v \o f
      BY <1>1, <2>1, TypeParts, MsgsTail
    <3>4. u \in Seq(Msg) /\ f \in Seq(Msg)
      <4>1. Tail(k) \in Seq(Packets)
        BY <1>1, <2>1
      <4> QED
        BY <4>1, TypeParts, MsgsFlat
    <3>5. FlattenSeq(MsgsOf(mem', Tail(k))) = f
      BY <1>2
    <3> HIDE DEF u, v, f
    <3>6. (u \o v) \o f = u \o (v \o f)
      <4>1. \A a, b, c \in Seq(Msg) : (a \o b) \o c = a \o (b \o c)
        BY Regroup, Zenon
      <4> QED
        BY <2>3, <3>4, <4>1, Zenon
    <3> QED
      BY <1>2, <2>7, <3>1, <3>2, <3>3, <3>5, <3>6 DEF Carries
  <2> QED
    BY <1>1, <1>2, <1>3, <1>4, <2>6, <2>8, <2>9, StepKept DEF SocketInv, k
<1>6. CASE BreakConnection(s)
  <2>1. UNCHANGED <<posted, completions, wire>>
    BY <1>6 DEF BreakConnection
  <2>2. \A t \in Sockets \ {s} : SameAt(t)
    BY <1>2, <2>1 DEF SameAt
  <2>3. Posts(s, k)' /\ Carries(s, Waiting(s, k))'
    BY <1>1, <1>2, <2>1 DEF SocketInv, Posts, Carries, Waiting
  <2> QED
    BY <1>1, <1>2, <1>3, <1>4, <2>2, <2>3, StepKept DEF SocketInv, k
<1>7. CASE FailPosted(s)
  <2>1. UNCHANGED <<completions, wire>> /\ posted' = [posted EXCEPT ![s] = Tail(@)]
    BY <1>7 DEF FailPosted
  <2>2. \A t \in Sockets \ {s} : SameAt(t)
    BY <1>2, <2>1, TypeParts DEF SameAt
  <2>3. posted'[s] = <<>>
    <3>1. \E x : posted[s] = <<x>>
      BY <1>7 DEF FailPosted, InFlightInv
    <3>2. \A x : Tail(<<x>>) = <<>>
      OBVIOUS
    <3> QED
      BY <2>1, <3>1, <3>2, TypeParts
  <2>4. Posts(s, k)' /\ Carries(s, Waiting(s, k))'
    BY <1>1, <1>2, <2>1, <2>3 DEF SocketInv, Posts, Carries, Waiting
  <2> QED
    BY <1>1, <1>2, <1>3, <1>4, <2>2, <2>4, StepKept DEF SocketInv, k
<1> QED
  BY <1>5, <1>6, <1>7 DEF Kernel

\* A step that changes nothing but what a pool answered, or nothing.
LEMMA StutterKept ==
    ASSUME TypeInv, NEW q \in Queues, QueueInv(q),
           UNCHANGED <<mem, queues, filling, freeing, kernel, accepted, used, live>>
    PROVE  \E r \in Queues : QueueInv(r)'
<1>1. PoolsInv(q)'
  <2>1. \A t \in Sockets, p \in Packets : Uses(t, q[t], p)' <=> Uses(t, q[t], p)
    BY DEF Uses
  <2> QED
    BY <2>1, PoolsKept DEF QueueInv
<1>2. \A t \in Sockets : SocketInv(t, q[t])'
  BY DEF QueueInv, SocketInv, Listed, Outside, Posts, Carries, Waiting, queues, kernel
<1> QED
  BY <1>1, <1>2 DEF QueueInv

\* The elements of a pool that are out are finitely many.
LEMMA OutFinite == \A c \in Classes : IsFiniteSet(Out(c)) /\ Out(c) \subseteq Index
<1>1. IsFiniteSet(Index)
  BY BoundsAssumption, FS_Interval DEF Index
<1>2. \A c \in Classes : Out(c) \subseteq Index
  BY DEF Out
<1> QED
  BY <1>1, <1>2, FS_Subset

\* A packet that the pool hands out, and that is lent once then, is nobody's.
LEMMA AllocFresh ==
    ASSUME TypeInv, LentOnce', NEW s \in Sockets, NEW len, NEW imm, SendAlloc(s, len, imm)
    PROVE  LET c == ClassOf(len) IN
           /\ c \in Classes /\ used[c] \in Index /\ <<c, used[c]>> \in Packets
           /\ live[c][used[c]] = 0
           /\ \A q \in Queues : PoolsInv(q) =>
                 \A t \in Sockets : ~Uses(t, q[t], <<c, used[c]>>)
<1>1. PICK c \in Classes : c = ClassOf(len) /\ used[c] # PoolSize
  BY ClassOfFits DEF SendAlloc
<1>2. used[c] \in Index
  BY <1>1, TypeParts, BoundsAssumption DEF Index
<1>3. live' = [live EXCEPT ![c] = [live[c] EXCEPT ![used[c]] = live[c][used[c]] + 1]]
  BY <1>1, <1>2, TypeParts DEF SendAlloc
<1>4. live'[c][used[c]] = live[c][used[c]] + 1 /\ live[c][used[c]] \in Nat
  BY <1>2, <1>3, TypeParts
<1>5. live[c][used[c]] = 0
  BY <1>2, <1>4 DEF LentOnce
<1>6. ASSUME NEW q \in Queues, PoolsInv(q), NEW t \in Sockets
      PROVE  ~Uses(t, q[t], <<c, used[c]>>)
  BY <1>2, <1>5, <1>6 DEF PoolsInv
<1> QED
  BY <1>1, <1>2, <1>5, <1>6 DEF Packets

LEMMA AllocKept ==
    ASSUME TypeInv, InFlightInv, TypeInv', LentOnce', NEW q \in Queues, QueueInv(q),
           NEW s \in Sockets, NEW len \in Lens, NEW imm \in BOOLEAN, SendAlloc(s, len, imm)
    PROVE  QueueInv(q)'
<1> DEFINE c == ClassOf(len)
           i == used[c]
           p == <<c, i>>
<1>1. c \in Classes /\ i # PoolSize
  BY ClassOfFits DEF SendAlloc
<1>2. /\ i \in Index /\ p \in Packets /\ live[c][i] = 0
      /\ \A t \in Sockets : ~Uses(t, q[t], p)
  BY AllocFresh DEF QueueInv
<1>3. /\ filling[s] = Nil /\ freeing[s] = Nil
      /\ mem' = [mem EXCEPT ![p] = Released(c)]
      /\ used' = [used EXCEPT ![c] = i + 1]
      /\ live' = [live EXCEPT ![c] = [live[c] EXCEPT ![i] = 1]]
      /\ filling' = [filling EXCEPT ![s] = [packet |-> p, len |-> len, imm |-> imm]]
      /\ UNCHANGED <<sendingPacket, lastPacket, freeing, posted, completions, wire, accepted>>
  <2>1. live[c][i] + 1 = 1
    BY <1>2
  <2> QED
    BY <2>1, <1>1, TypeParts DEF SendAlloc, SendCalled, GuardFree, queues, kernel
<1>4. p[1] = c /\ p[2] = i /\ p # Nil
  BY <1>2, PacketParts
<1> HIDE DEF c, i, p
<1>5. /\ \A t \in Packets : mem'[t] = IF t = p THEN Released(c) ELSE mem[t]
      /\ filling'[s] = [packet |-> p, len |-> len, imm |-> imm] /\ filling'[s] # Nil
      /\ \A t \in Sockets \ {s} : filling'[t] = filling[t]
  <2>1. [packet |-> p, len |-> len, imm |-> imm] # Nil
    <3>1. [packet |-> p, len |-> len, imm |-> imm] \in FillingType
      BY <1>2 DEF FillingType
    <3> QED
      BY <3>1, FillingNotNil
  <2> QED
    BY <1>2, <1>3, <2>1, TypeParts
<1>6. \A d \in Classes, j \in Index : live'[d][j] = IF <<d, j>> = p THEN 1 ELSE live[d][j]
  BY <1>1, <1>2, <1>3, TypeParts DEF p
<1>7. \A t \in Sockets, x \in Packets :
        Uses(t, q[t], x)' <=> Uses(t, q[t], x) \/ (t = s /\ x = p)
  <2>1. ASSUME NEW x \in Packets
        PROVE  Uses(s, q[s], x)' <=> Uses(s, q[s], x) \/ x = p
    BY <1>3, <1>5 DEF Uses
  <2>2. ASSUME NEW t \in Sockets \ {s}, NEW x \in Packets
        PROVE  Uses(t, q[t], x)' <=> Uses(t, q[t], x)
    BY <1>3, <1>5 DEF Uses
  <2> QED
    BY <2>1, <2>2
<1>8. PoolsInv(q)
  BY DEF QueueInv
<1>9. PoolsInv(q)'
  <2>1. \A t, u \in Sockets, x \in Packets : Uses(t, q[t], x)' /\ Uses(u, q[u], x)' => t = u
    BY <1>2, <1>7, <1>8 DEF PoolsInv
  <2>2. \A d \in Classes, j \in Index :
          live'[d][j] = 1 <=> \E t \in Sockets : Uses(t, q[t], <<d, j>>)'
    <3> SUFFICES ASSUME NEW d \in Classes, NEW j \in Index
                 PROVE  live'[d][j] = 1 <=> \E t \in Sockets : Uses(t, q[t], <<d, j>>)'
      OBVIOUS
    <3> DEFINE x == <<d, j>>
    <3>1. x \in Packets
      BY DEF Packets
    <3>2. live[d][j] = 1 <=> \E t \in Sockets : Uses(t, q[t], x)
      BY <1>8 DEF PoolsInv
    <3>3. live'[d][j] = IF x = p THEN 1 ELSE live[d][j]
      BY <1>6
    <3> HIDE DEF x
    <3>4. live'[d][j] = 1 <=> \E t \in Sockets : Uses(t, q[t], x)'
      BY <1>7, <3>1, <3>2, <3>3
    <3> QED
      BY <3>4 DEF x
  <2>3. /\ Out(c)' = Out(c) \cup {i} /\ i \notin Out(c)
        /\ \A d \in Classes : d # c => Out(d)' = Out(d)
    BY <1>1, <1>2, <1>6 DEF Out, p
  <2>4. /\ used'[c] = i + 1 /\ i \in Int
        /\ \A d \in Classes : d # c => used'[d] = used[d]
    BY <1>1, <1>2, <1>3, TypeParts DEF Index
  <2>5. \A d \in Classes : used'[d] = Cardinality(Out(d)')
    <3>1. i = Cardinality(Out(c))
      BY <1>1, <1>8 DEF PoolsInv, i
    <3>2. Cardinality(Out(c) \cup {i}) = Cardinality(Out(c)) + 1
      BY <1>1, <2>3, OutFinite, FS_AddElement
    <3>3. \A d \in Classes : used[d] = Cardinality(Out(d))
      BY <1>8 DEF PoolsInv
    <3> QED
      BY <2>3, <2>4, <3>1, <3>2, <3>3
  <2>7. \A x \in Packets : mem'[x] # Released(x[1]) => live'[x[1]][x[2]] = 1
    <3> SUFFICES ASSUME NEW x \in Packets, mem'[x] # Released(x[1]) PROVE live'[x[1]][x[2]] = 1
      OBVIOUS
    <3>1. x # p /\ mem[x] # Released(x[1])
      BY <1>4, <1>5
    <3>2. x[1] \in Classes /\ x[2] \in Index /\ <<x[1], x[2]>> # p
      BY <3>1, PacketParts
    <3>3. live[x[1]][x[2]] = 1
      BY <1>8, <3>1 DEF PoolsInv
    <3> QED
      BY <1>6, <3>2, <3>3
  <2> QED
    BY <2>1, <2>2, <2>5, <2>7 DEF PoolsInv
<1>10. \A t \in Sockets : q[t] \in Seq(Packets) /\ SocketInv(t, q[t])
  BY DEF QueueInv, Queues
<1>11. ASSUME NEW t \in Sockets \ {s} PROVE SocketInv(t, q[t])'
  <2>1. SameAt(t)
    BY <1>3, <1>5 DEF SameAt
  <2>2. \A x \in Packets : Uses(t, q[t], x) => mem'[x] = mem[x]
    BY <1>2, <1>5
  <2> QED
    BY <1>10, <2>1, <2>2, OthersKept
<1>12. SocketInv(s, q[s])'
  <2> DEFINE k == q[s]
  <2>1. \A j \in 1 .. Len(k) : k[j] \in Packets /\ k[j] # p
    <3>1. \A j \in 1 .. Len(k) : k[j] \in Packets
      BY <1>10
    <3>2. \A j \in 1 .. Len(k) : Uses(s, k, k[j])
      BY DEF Uses
    <3> QED
      BY <1>2, <3>1, <3>2
  <2>2. \A j \in 1 .. Len(k) : mem'[k[j]] = mem[k[j]]
    BY <1>5, <2>1
  <2>3. Listed(s, k)' /\ Posts(s, k)' /\ Carries(s, Waiting(s, k))'
    BY <1>3, <1>10, <2>2, QueueKept DEF SocketInv
  <2>4. Outside(s, k)'
    <3>1. filling'[s].packet = p /\ freeing'[s] = Nil
      BY <1>3, <1>5
    <3>2. mem'[p] = Released(p[1])
      BY <1>2, <1>4, <1>5
    <3> HIDE DEF k
    <3> QED
      BY <1>5, <2>1, <3>1, <3>2 DEF Outside
  <2> QED
    BY <2>3, <2>4 DEF SocketInv
<1> QED
  BY <1>9, <1>11, <1>12 DEF QueueInv

\* The packet a socket frees is out, is nobody else's, and is in no queue.
LEMMA FreeingUsed ==
    ASSUME TypeInv, NEW q \in Queues, QueueInv(q), NEW s \in Sockets, freeing[s] # Nil
    PROVE  LET p == freeing[s] IN
           /\ p \in Packets /\ p[1] \in Classes /\ p[2] \in Index /\ p = <<p[1], p[2]>>
           /\ live[p[1]][p[2]] = 1 /\ used[p[1]] \in Nat /\ used[p[1]] > 0
           /\ filling[s] = Nil /\ \A i \in 1 .. Len(q[s]) : q[s][i] # p
           /\ \A t \in Sockets : Uses(t, q[t], p) <=> t = s
<1> DEFINE p == freeing[s]
           c == p[1]
           i == p[2]
<1>1. p \in Packets /\ c \in Classes /\ i \in Index /\ p = <<c, i>>
  BY TypeParts, PacketParts
<1>2. Uses(s, q[s], p)
  BY DEF Uses
<1> HIDE DEF p
<1>3. \A t \in Sockets : Uses(t, q[t], p) <=> t = s
  BY <1>1, <1>2 DEF QueueInv, PoolsInv
<1>4. live[c][i] = 1
  <2>1. Uses(s, q[s], <<c, i>>)
    BY <1>1, <1>2
  <2> HIDE DEF c, i
  <2> QED
    BY <1>1, <2>1 DEF QueueInv, PoolsInv
<1>5. used[c] \in Nat /\ used[c] > 0
  <2> HIDE DEF c, i
  <2>1. i \in Out(c) /\ IsFiniteSet(Out(c))
    BY <1>1, <1>4, OutFinite DEF Out
  <2>2. Cardinality(Out(c)) # 0 /\ Cardinality(Out(c)) \in Nat
    BY <2>1, FS_EmptySet, FS_CardinalityType
  <2>3. used[c] = Cardinality(Out(c))
    BY <1>1 DEF QueueInv, PoolsInv
  <2> QED
    BY <2>2, <2>3
<1>6. filling[s] = Nil /\ \A j \in 1 .. Len(q[s]) : q[s][j] # p
  BY DEF QueueInv, SocketInv, Outside, p
<1> QED
  BY <1>1, <1>3, <1>4, <1>5, <1>6 DEF p

LEMMA FreeKept ==
    ASSUME TypeInv, InFlightInv, TypeInv', NEW q \in Queues, QueueInv(q),
           NEW s \in Sockets, FreePacket(s)
    PROVE  QueueInv(q)'
<1>1. freeing[s] # Nil
  BY DEF FreePacket
<1>2. PICK p \in Packets, c \in Classes, i \in Index :
        /\ p = freeing[s] /\ c = p[1] /\ i = p[2] /\ p = <<c, i>>
        /\ live[c][i] = 1 /\ used[c] \in Nat /\ used[c] > 0
        /\ filling[s] = Nil /\ \A j \in 1 .. Len(q[s]) : q[s][j] # p
        /\ \A t \in Sockets : Uses(t, q[t], p) <=> t = s
  <2> DEFINE r == freeing[s]
  <2>1. /\ r \in Packets /\ r[1] \in Classes /\ r[2] \in Index /\ r = <<r[1], r[2]>>
        /\ live[r[1]][r[2]] = 1 /\ used[r[1]] \in Nat /\ used[r[1]] > 0
        /\ filling[s] = Nil /\ \A j \in 1 .. Len(q[s]) : q[s][j] # r
        /\ \A t \in Sockets : Uses(t, q[t], r) <=> t = s
    BY <1>1, FreeingUsed
  <2> QED
    BY <2>1, Zenon
<1>3. /\ mem' = [mem EXCEPT ![p] = Released(c)]
      /\ used' = [used EXCEPT ![c] = used[c] - 1]
      /\ live' = [live EXCEPT ![c] = [live[c] EXCEPT ![i] = 0]]
      /\ freeing' = [freeing EXCEPT ![s] = Nil]
      /\ UNCHANGED <<sendingPacket, lastPacket, filling, posted, completions, wire, accepted>>
  <2>1. live[c][i] - 1 = 0
    BY <1>2
  <2> QED
    BY <2>1, <1>2, TypeParts DEF FreePacket, queues, kernel
<1>4. p[1] = c /\ p[2] = i
  BY <1>2
<1>5. /\ \A t \in Packets : mem'[t] = IF t = p THEN Released(c) ELSE mem[t]
      /\ freeing'[s] = Nil
      /\ \A t \in Sockets \ {s} : freeing'[t] = freeing[t]
  BY <1>2, <1>3, TypeParts
<1>6. \A d \in Classes, j \in Index : live'[d][j] = IF <<d, j>> = p THEN 0 ELSE live[d][j]
  BY <1>2, <1>3, TypeParts
<1>7. \A t \in Sockets, x \in Packets :
        Uses(t, q[t], x)' <=> Uses(t, q[t], x) /\ x # p
  <2>1. ASSUME NEW x \in Packets
        PROVE  Uses(s, q[s], x)' <=> Uses(s, q[s], x) /\ x # p
    <3>1. Uses(s, q[s], x) <=> (\E j \in 1 .. Len(q[s]) : q[s][j] = x) \/ x = p
      BY <1>1, <1>2 DEF Uses
    <3>2. Uses(s, q[s], x)' <=> \E j \in 1 .. Len(q[s]) : q[s][j] = x
      BY <1>2, <1>3, <1>5 DEF Uses
    <3> QED
      BY <1>2, <3>1, <3>2
  <2>2. ASSUME NEW t \in Sockets \ {s}, NEW x \in Packets
        PROVE  /\ Uses(t, q[t], x)' <=> Uses(t, q[t], x)
               /\ Uses(t, q[t], x) => x # p
    BY <1>2, <1>3, <1>5 DEF Uses
  <2> QED
    BY <2>1, <2>2
<1>8. PoolsInv(q)
  BY DEF QueueInv
<1>9. PoolsInv(q)'
  <2>1. \A t, u \in Sockets, x \in Packets : Uses(t, q[t], x)' /\ Uses(u, q[u], x)' => t = u
    BY <1>7, <1>8 DEF PoolsInv
  <2>2. \A d \in Classes, j \in Index :
          live'[d][j] = 1 <=> \E t \in Sockets : Uses(t, q[t], <<d, j>>)'
    <3> SUFFICES ASSUME NEW d \in Classes, NEW j \in Index
                 PROVE  live'[d][j] = 1 <=> \E t \in Sockets : Uses(t, q[t], <<d, j>>)'
      OBVIOUS
    <3> DEFINE x == <<d, j>>
    <3>1. x \in Packets
      BY DEF Packets
    <3>2. live[d][j] = 1 <=> \E t \in Sockets : Uses(t, q[t], x)
      BY <1>8 DEF PoolsInv
    <3>3. live'[d][j] = IF x = p THEN 0 ELSE live[d][j]
      BY <1>6
    <3> HIDE DEF x
    <3>4. live'[d][j] = 1 <=> \E t \in Sockets : Uses(t, q[t], x)'
      BY <1>7, <3>1, <3>2, <3>3
    <3> QED
      BY <3>4 DEF x
  <2>3. /\ Out(c)' = Out(c) \ {i} /\ i \in Out(c)
        /\ \A d \in Classes : d # c => Out(d)' = Out(d)
    <3>1. \A d \in Classes, j \in Index : <<d, j>> = p <=> d = c /\ j = i
      BY <1>2
    <3>2. \A d \in Classes, j \in Index :
            live'[d][j] = IF d = c /\ j = i THEN 0 ELSE live[d][j]
      BY <1>6, <3>1
    <3> QED
      BY <1>2, <3>2 DEF Out
  <2>4. /\ used'[c] = used[c] - 1
        /\ \A d \in Classes : d # c => used'[d] = used[d]
    BY <1>2, <1>3, TypeParts
  <2>5. used[c] = Cardinality(Out(c)) /\ used[c] - 1 = Cardinality(Out(c)')
    <3>1. used[c] = Cardinality(Out(c))
      BY <1>2, <1>8 DEF PoolsInv
    <3>2. Cardinality(Out(c) \ {i}) = Cardinality(Out(c)) - 1
      <4>1. IsFiniteSet(Out(c)) /\ i \in Out(c)
        BY <2>3, OutFinite
      <4> QED
        BY <4>1, FS_RemoveElement
    <3> QED
      BY <2>3, <3>1, <3>2
  <2>6. \A d \in Classes : used'[d] = Cardinality(Out(d)')
    <3>1. \A d \in Classes : used[d] = Cardinality(Out(d))
      BY <1>8 DEF PoolsInv
    <3>2. ASSUME NEW d \in Classes PROVE used'[d] = Cardinality(Out(d)')
      <4>1. CASE d = c
        BY <2>4, <2>5, <4>1
      <4>2. CASE d # c
        <5>1. used'[d] = used[d] /\ Out(d)' = Out(d)
          BY <2>3, <2>4, <4>2
        <5> QED
          BY <3>1, <5>1
      <4> QED
        BY <4>1, <4>2
    <3> QED
      BY <3>2
  <2>8. LentOnce'
    <3>1. \A d \in Classes, j \in Index : live[d][j] <= 1
      BY <1>8 DEF PoolsInv, LentOnce
    <3> QED
      BY <1>6, <3>1 DEF LentOnce
  <2>9. \A x \in Packets : mem'[x] # Released(x[1]) => live'[x[1]][x[2]] = 1
    <3> SUFFICES ASSUME NEW x \in Packets, mem'[x] # Released(x[1]) PROVE live'[x[1]][x[2]] = 1
      OBVIOUS
    <3>1. x # p /\ mem[x] # Released(x[1])
      BY <1>4, <1>5
    <3>2. x[1] \in Classes /\ x[2] \in Index /\ <<x[1], x[2]>> # p
      BY <3>1, PacketParts
    <3>3. live[x[1]][x[2]] = 1
      BY <1>8, <3>1 DEF PoolsInv
    <3> QED
      BY <1>6, <3>2, <3>3
  <2> QED
    BY <2>1, <2>2, <2>6, <2>8, <2>9 DEF PoolsInv
<1>10. \A t \in Sockets : q[t] \in Seq(Packets) /\ SocketInv(t, q[t])
  BY DEF QueueInv, Queues
<1>11. ASSUME NEW t \in Sockets \ {s} PROVE SocketInv(t, q[t])'
  <2>1. SameAt(t)
    BY <1>3, <1>5 DEF SameAt
  <2>2. \A x \in Packets : Uses(t, q[t], x) => mem'[x] = mem[x]
    BY <1>2, <1>5
  <2> QED
    BY <1>10, <2>1, <2>2, OthersKept
<1>12. SocketInv(s, q[s])'
  <2> DEFINE k == q[s]
  <2>1. \A j \in 1 .. Len(k) : k[j] \in Packets
    BY <1>10
  <2>2. \A j \in 1 .. Len(k) : mem'[k[j]] = mem[k[j]]
    BY <1>2, <1>5, <2>1
  <2>3. Listed(s, k)' /\ Posts(s, k)' /\ Carries(s, Waiting(s, k))'
    BY <1>3, <1>10, <2>2, QueueKept DEF SocketInv
  <2>4. Outside(s, k)'
    BY <1>2, <1>3, <1>5 DEF Outside
  <2> QED
    BY <2>3, <2>4 DEF SocketInv
<1> QED
  BY <1>9, <1>11, <1>12 DEF QueueInv

-----------------------------------------------------------------------------
(* The queues in every state                                               *)

LEMMA QueueInit == Init => TypeInv /\ \E q \in Queues : QueueInv(q)
<1> SUFFICES ASSUME Init PROVE \E q \in Queues : QueueInv(q)
  BY TypeInit
<1> DEFINE q == [s \in Sockets |-> <<>>]
<1>1. /\ \A p \in Packets : mem[p] = Released(p[1])
      /\ \A s \in Sockets :
          /\ sendingPacket[s] = Nil /\ lastPacket[s] = Nil /\ filling[s] = Nil
          /\ freeing[s] = Nil /\ posted[s] = <<>> /\ completions[s] = 0
          /\ wire[s] = <<>> /\ accepted[s] = <<>>
      /\ \A c \in Classes : used[c] = 0 /\ \A i \in Index : live[c][i] = 0
  BY DEF Init
<1>2. q \in Queues /\ \A s \in Sockets : q[s] = <<>> /\ Len(q[s]) = 0
  BY DEF Queues
<1> HIDE DEF q
<1>3. ASSUME NEW s \in Sockets PROVE SocketInv(s, q[s])
  <2>1. Listed(s, q[s]) /\ Outside(s, q[s]) /\ Posts(s, q[s]) /\ Waiting(s, q[s]) = <<>>
    BY <1>1, <1>2 DEF Listed, Outside, Posts, Waiting
  <2>2. FlattenSeq(MsgsOf(mem, <<>>)) = <<>> /\ <<>> \o <<>> = <<>>
    BY NoMsgs
  <2>3. Carries(s, Waiting(s, q[s]))
    BY <1>1, <2>1, <2>2 DEF Carries
  <2> QED
    BY <2>1, <2>3 DEF SocketInv
<1>4. \A s \in Sockets : \A p : ~Uses(s, q[s], p)
  BY <1>1, <1>2 DEF Uses
<1>5. \A c \in Classes : Out(c) = {}
  BY <1>1 DEF Out
<1>6. \A c \in Classes : used[c] = Cardinality(Out(c))
  BY <1>1, <1>5, FS_EmptySet
<1>7. LentOnce
  BY <1>1 DEF LentOnce
<1>8. PoolsInv(q)
  <2>1. \A c \in Classes, i \in Index :
          live[c][i] = 1 <=> \E s \in Sockets : Uses(s, q[s], <<c, i>>)
    BY <1>1, <1>4
  <2>2. \A s, t \in Sockets, p \in Packets : Uses(s, q[s], p) /\ Uses(t, q[t], p) => s = t
    BY <1>4
  <2> QED
    BY <1>1, <1>6, <1>7, <2>1, <2>2, Zenon DEF PoolsInv
<1> QED
  BY <1>2, <1>3, <1>8 DEF QueueInv

LEMMA SendStep ==
    ASSUME TypeInv, InFlightInv, InFlightInv', NEW q \in Queues, QueueInv(q),
           NEW s \in Sockets, Send(s)
    PROVE  TypeInv' /\ (LentOnce' => \E r \in Queues : QueueInv(r)')
<1>1. CASE SendFirst(s)
  BY <1>1, LinkType, FirstKept
<1>2. CASE SendQueued(s)
  BY <1>2, LinkType, QueuedKept
<1>3. ASSUME NEW m \in Messages, SendAppend(s, m[1], m[2])
      PROVE  TypeInv' /\ \E r \in Queues : QueueInv(r)'
  BY <1>3, SendTypes, AppendType, AppendKept
<1>4. ASSUME NEW m \in Messages, SendAlloc(s, m[1], m[2])
      PROVE  TypeInv' /\ (LentOnce' => \E r \in Queues : QueueInv(r)')
  <2>1. m[1] \in Lens /\ m[2] \in BOOLEAN
    BY SendTypes
  <2>2. TypeInv'
    BY <1>4, <2>1, AllocType
  <2> QED
    BY <1>4, <2>1, <2>2, AllocKept
<1>5. ASSUME NEW m \in Messages, SendAllocFull(s, m[1], m[2]) \/ SendTooLong(s, m[1], m[2])
      PROVE  TypeInv' /\ \E r \in Queues : QueueInv(r)'
  <2>1. TypeInv'
    BY <1>5, SendTypes, CrashType
  <2>2. UNCHANGED <<mem, queues, filling, freeing, kernel, accepted, used, live>>
    BY <1>5 DEF SendAllocFull, SendTooLong, pools
  <2> QED
    BY <2>1, <2>2, StutterKept
<1> QED
  BY <1>1, <1>2, <1>3, <1>4, <1>5 DEF Send

LEMMA QueueStep ==
    ASSUME TypeInv, InFlightInv, NEW q \in Queues, QueueInv(q), [Next]_vars
    PROVE  TypeInv' /\ (LentOnce' => \E r \in Queues : QueueInv(r)')
<1>1. InFlightInv'
  BY InFlightStep
<1>2. ASSUME NEW s \in Sockets, Send(s)
      PROVE  TypeInv' /\ (LentOnce' => \E r \in Queues : QueueInv(r)')
  BY <1>1, <1>2, SendStep
<1>3. ASSUME NEW s \in Sockets, WriteCallback(s)
      PROVE  TypeInv' /\ \E r \in Queues : QueueInv(r)'
  BY <1>3, CallbackType, CallbackKept
<1>4. ASSUME NEW s \in Sockets, FreePacket(s)
      PROVE  TypeInv' /\ \E r \in Queues : QueueInv(r)'
  <2>1. freeing[s] # Nil
    BY <1>4 DEF FreePacket
  <2>2. live[freeing[s][1]][freeing[s][2]] = 1 /\ used[freeing[s][1]] > 0
    BY <2>1, FreeingUsed
  <2>3. TypeInv'
    BY <1>4, <2>2, FreeType
  <2> QED
    BY <1>4, <2>3, FreeKept
<1>5. ASSUME NEW s \in Sockets, Kernel(s)
      PROVE  TypeInv' /\ \E r \in Queues : QueueInv(r)'
  <2>1. ASSUME posted[s] # <<>>
        PROVE  Head(posted[s]).len = Len(mem[Head(posted[s]).packet].msgs)
    <3>1. posted[s] = <<[packet |-> q[s][1], len |-> Len(mem[q[s][1]].msgs)]>>
      BY <2>1 DEF QueueInv, SocketInv, Posts
    <3> QED
      BY <3>1
  <2>2. TypeInv'
    BY <1>5, <2>1, KernelType
  <2> QED
    BY <1>5, <2>2, KernelKept
<1>6. CASE UNCHANGED vars
  <2>1. TypeInv'
    BY <1>6, TypeUnchanged
  <2>2. UNCHANGED <<mem, queues, filling, freeing, kernel, accepted, used, live>>
    BY <1>6 DEF vars, pools
  <2> QED
    BY <2>1, <2>2, StutterKept
<1> QED
  BY <1>2, <1>3, <1>4, <1>5, <1>6 DEF Next, OnWriteCallback

\* Only a process that is Running takes a step, so no packet was lent twice before it.
LEMMA StepRuns ==
    ASSUME [Next]_vars
    PROVE  UNCHANGED vars \/ (Sound /\ LentOnce)
<1>1. ASSUME NEW s \in Sockets, Send(s) \/ OnWriteCallback(s) \/ Kernel(s) PROVE Running
  BY <1>1 DEF Send, SendFirst, SendQueued, SendAppend, SendAlloc, SendAllocFull, SendTooLong,
     SendCalled, GuardFree, OnWriteCallback, WriteCallback, FreePacket, Kernel, Transmit,
     BreakConnection, FailPosted
<1> QED
  BY <1>1 DEF Next, Running, Sound, LentOnce

\* The queues in every state: the inductive invariant of the send path.
QueuesOK == TypeInv /\ InFlightInv /\ (LentOnce => \E q \in Queues : QueueInv(q))

\* As long as no packet is lent twice, every state has its queues.
LEMMA AlwaysQueues == Spec => []QueuesOK
<1>1. Init => QueuesOK
  BY QueueInit, InFlightInit DEF QueuesOK
<1>2. QueuesOK /\ [Next]_vars => QueuesOK'
  <2> SUFFICES ASSUME QueuesOK, [Next]_vars PROVE QueuesOK'
    OBVIOUS
  <2>1. CASE UNCHANGED vars
    <3>1. TypeInv' /\ InFlightInv'
      BY <2>1, TypeUnchanged, InFlightStep DEF QueuesOK
    <3>2. ASSUME LentOnce' PROVE \E q \in Queues : QueueInv(q)'
      <4>1. LentOnce
        BY <2>1, <3>2 DEF vars, pools, LentOnce
      <4>2. PICK q \in Queues : QueueInv(q)
        BY <4>1 DEF QueuesOK
      <4> QED
        BY <3>2, <4>2, QueueStep DEF QueuesOK
    <3> QED
      BY <3>1, <3>2 DEF QueuesOK
  <2>2. CASE LentOnce
    <3>1. PICK q \in Queues : QueueInv(q)
      BY <2>2 DEF QueuesOK
    <3> QED
      BY <3>1, QueueStep, InFlightStep DEF QueuesOK
  <2> QED
    BY <2>1, <2>2, StepRuns
<1> QED
  BY <1>1, <1>2, PTL DEF Spec

-----------------------------------------------------------------------------
(* Chain is the queue                                                      *)

\* One step along the links from the end of w, and the whole walk.
Further(w) == IF w = <<>> \/ mem[Last(w)].next = Nil THEN w ELSE Append(w, mem[Last(w)].next)

Walks(f, s) ==
    f = [i \in 0 .. Cardinality(Packets) |->
            IF i = 0 THEN IF sendingPacket[s] = Nil THEN <<>> ELSE <<sendingPacket[s]>>
            ELSE Further(f[i - 1])]

\* What the walk has found after j steps.
Found(k, j) == SubSeq(k, 1, IF j < Len(k) THEN j + 1 ELSE Len(k))

LEMMA FrontStarts ==
    ASSUME NEW s \in Sockets, NEW k \in Seq(Packets), Listed(s, k)
    PROVE  Found(k, 0) = IF sendingPacket[s] = Nil THEN <<>> ELSE <<sendingPacket[s]>>
<1>1. CASE k = <<>>
  <2>1. sendingPacket[s] = Nil /\ Len(k) = 0
    BY <1>1 DEF Listed
  <2>2. SubSeq(k, 1, 0) = <<>>
    BY <1>1
  <2> QED
    BY <2>1, <2>2 DEF Found
<1>2. CASE k # <<>>
  <2>1. Len(k) \in Nat /\ Len(k) > 0 /\ k[1] \in Packets
    BY <1>2
  <2>2. sendingPacket[s] = k[1] /\ k[1] # Nil
    BY <1>2, <2>1, PacketParts DEF Listed
  <2>3. SubSeq(k, 1, 1) = <<k[1]>>
    <3> DEFINE w1 == SubSeq(k, 1, 1)
    <3>1. w1 \in Seq(Packets) /\ Len(w1) = 1 /\ w1[1] = k[1]
      BY <2>1
    <3>2. \A w \in Seq(Packets) : Len(w) = 1 => w = <<w[1]>>
      OBVIOUS
    <3> HIDE DEF w1
    <3>3. w1 = <<k[1]>>
      BY <3>1, <3>2
    <3> QED
      BY <3>3 DEF w1
  <2> QED
    BY <2>1, <2>2, <2>3 DEF Found
<1> QED
  BY <1>1, <1>2

LEMMA FrontGoesOn ==
    ASSUME NEW s \in Sockets, NEW k \in Seq(Packets), Listed(s, k), NEW j \in Nat
    PROVE  Found(k, j + 1) = Further(Found(k, j))
<1>1. CASE k = <<>>
  <2>1. Len(k) = 0 /\ SubSeq(k, 1, 0) = <<>>
    BY <1>1
  <2>2. Found(k, j) = <<>> /\ Found(k, j + 1) = <<>>
    BY <2>1 DEF Found
  <2> QED
    BY <2>2 DEF Further
<1>2. CASE k # <<>> /\ j + 1 < Len(k)
  <2>1. /\ SubSeq(k, 1, j + 1) # <<>> /\ Len(SubSeq(k, 1, j + 1)) = j + 1
        /\ SubSeq(k, 1, j + 1)[j + 1] = k[j + 1]
        /\ SubSeq(k, 1, j + 2) = Append(SubSeq(k, 1, j + 1), k[j + 2])
    BY <1>2
  <2>2. mem[k[j + 1]].next = k[j + 2] /\ k[j + 2] # Nil
    <3>1. j + 1 \in 1 .. Len(k) /\ (j + 1) + 1 = j + 2 /\ k[j + 2] \in Packets
      BY <1>2
    <3>2. mem[k[j + 1]].next = k[j + 2]
      BY <1>2, <3>1 DEF Listed
    <3> QED
      BY <3>1, <3>2, PacketParts
  <2>3. Found(k, j) = SubSeq(k, 1, j + 1) /\ Found(k, j + 1) = SubSeq(k, 1, j + 2)
    BY <1>2 DEF Found
  <2> QED
    BY <2>1, <2>2, <2>3 DEF Further, Last
<1>3. CASE k # <<>> /\ ~(j + 1 < Len(k))
  <2>1. Len(k) \in Nat /\ Len(k) > 0 /\ SubSeq(k, 1, Len(k)) = k
    BY <1>3
  <2>2. Found(k, j) = k /\ Found(k, j + 1) = k
    <3>1. PICK m \in Nat : m = Len(k)
      BY <2>1
    <3>2. ~(j + 1 < m)
      BY <1>3, <3>1
    <3>3. ~(j < m) \/ j + 1 = m
      BY <3>2
    <3> QED
      BY <2>1, <3>1, <3>2, <3>3 DEF Found
  <2>3. mem[k[Len(k)]].next = Nil
    BY <2>1 DEF Listed
  <2> QED
    BY <2>2, <2>3 DEF Further, Last
<1> QED
  BY <1>1, <1>2, <1>3

LEMMA PacketsFinite == IsFiniteSet(Packets) /\ Cardinality(Packets) \in Nat
<1>1. IsFiniteSet(Index)
  BY BoundsAssumption, FS_Interval DEF Index
<1>2. IsFiniteSet(Packets)
  BY <1>1, ClassesAssumption, FS_Product DEF Packets
<1> QED
  BY <1>2, FS_CardinalityType

\* A queue has no more packets than there are.
LEMMA QueueFits ==
    ASSUME NEW k \in Seq(Packets), \A i, j \in 1 .. Len(k) : k[i] = k[j] => i = j
    PROVE  Len(k) <= Cardinality(Packets)
<1> SUFFICES ASSUME Cardinality(Packets) < Len(k) PROVE FALSE
  BY PacketsFinite
<1>1. IsFiniteSet(1 .. Len(k)) /\ Cardinality(1 .. Len(k)) = Len(k)
  <2>1. Len(k) \in Nat /\ Len(k) \in Int /\ 1 \in Int
    OBVIOUS
  <2>2. ~(1 > Len(k))
    BY PacketsFinite, <2>1
  <2>3. IsFiniteSet(1 .. Len(k)) /\ Cardinality(1 .. Len(k)) = IF 1 > Len(k) THEN 0 ELSE Len(k) - 1 + 1
    BY <2>1, FS_Interval
  <2> QED
    BY <2>1, <2>2, <2>3
<1>2. k \in [1 .. Len(k) -> Packets]
  OBVIOUS
<1>3. \E i, j \in 1 .. Len(k) : i # j /\ k[i] = k[j]
  <2>1. Cardinality(Packets) < Cardinality(1 .. Len(k))
    BY <1>1
  <2> QED
    BY <1>1, <1>2, <2>1, PacketsFinite, FS_PigeonHole, Zenon
<1> QED
  BY <1>3

\* The walk from _sendingPacket along _next finds the queue.
LEMMA ChainIs ==
    ASSUME NEW s \in Sockets, NEW k \in Seq(Packets), Listed(s, k)
    PROVE  Chain(s) = k
<1> DEFINE n == Cardinality(Packets)
           f == CHOOSE f : Walks(f, s)
           g == [i \in 0 .. n |-> Found(k, i)]
<1>1. n \in Nat
  BY PacketsFinite
<1>2. Chain(s) = f[n]
  BY DEF Chain, Walks, Further
<1>3. Walks(g, s)
  <2>1. ASSUME NEW i \in 0 .. n
        PROVE  g[i] = IF i = 0 THEN IF sendingPacket[s] = Nil THEN <<>> ELSE <<sendingPacket[s]>>
                      ELSE Further(g[i - 1])
    <3>1. CASE i = 0
      BY <3>1, FrontStarts
    <3>2. CASE i # 0
      <4>1. i - 1 \in Nat /\ i - 1 \in 0 .. n /\ (i - 1) + 1 = i
        BY <1>1, <3>2
      <4>2. Found(k, (i - 1) + 1) = Further(Found(k, i - 1))
        BY <4>1, FrontGoesOn
      <4> QED
        BY <3>2, <4>1, <4>2
    <3> QED
      BY <3>1, <3>2
  <2>2. g = [i \in 0 .. n |-> g[i]]
    OBVIOUS
  <2> HIDE DEF g
  <2> QED
    BY <2>1, <2>2, Zenon DEF Walks
<1>4. Walks(f, s)
  <2> HIDE DEF g
  <2> QED
    BY <1>3, Zenon
<1> HIDE DEF f, g
<1>5. \A i \in 0 .. n : f[i] = IF i = 0
                               THEN IF sendingPacket[s] = Nil THEN <<>> ELSE <<sendingPacket[s]>>
                               ELSE Further(f[i - 1])
  BY <1>4, Zenon DEF Walks
<1> DEFINE S == {i \in Nat : i \in 0 .. n => f[i] = Found(k, i)}
<1>6. 0 \in S
  BY <1>1, <1>5, FrontStarts
<1>7. ASSUME NEW i \in Nat, i \in S PROVE i + 1 \in S
  <2>1. ASSUME i + 1 \in 0 .. n PROVE f[i + 1] = Found(k, i + 1)
    <3>1. i \in 0 .. n /\ i + 1 # 0 /\ (i + 1) - 1 = i
      BY <1>1, <2>1
    <3>2. f[i] = Found(k, i)
      BY <1>7, <3>1
    <3>3. f[i + 1] = Further(f[i])
      BY <1>5, <2>1, <3>1, Zenon
    <3> QED
      BY <3>2, <3>3, FrontGoesOn
  <2> QED
    BY <2>1
<1>8. Nat \subseteq S
  <2> HIDE DEF S
  <2> QED
    BY <1>6, <1>7, Induction
<1>9. f[n] = Found(k, n)
  BY <1>1, <1>8
<1>10. Found(k, n) = k
  <2>1. Len(k) \in Nat /\ Len(k) <= n
    BY QueueFits DEF Listed
  <2>2. SubSeq(k, 1, Len(k)) = k
    OBVIOUS
  <2>3. (IF n < Len(k) THEN n + 1 ELSE Len(k)) = Len(k)
    BY <1>1, <2>1
  <2> QED
    BY <2>2, <2>3 DEF Found
<1> QED
  BY <1>2, <1>9, <1>10

\* What transmitted and queued messages make up is what Send accepted.
LEMMA QueueNothingLost ==
    ASSUME NEW q \in Queues, QueueInv(q)
    PROVE  NothingLost
<1> SUFFICES ASSUME NEW s \in Sockets PROVE wire[s] \o Pending(s) = accepted[s]
  BY DEF NothingLost
<1>1. q[s] \in Seq(Packets) /\ Listed(s, q[s]) /\ Carries(s, Waiting(s, q[s]))
  BY DEF Queues, QueueInv, SocketInv
<1>2. Chain(s) = q[s]
  BY <1>1, ChainIs
<1>3. Pending(s) = FlattenSeq(MsgsOf(mem, Waiting(s, q[s])))
  BY <1>2 DEF Pending, Waiting, MsgsOf
<1> QED
  BY <1>1, <1>3 DEF Carries

\* NothingLost: as long as no packet is lent twice or overflows, what a socket
\* transmitted, followed by what its queue holds, is what Send took, in that order
\* (TCPSocket::Send, OnWriteCallback).
THEOREM SendLosesNothing == Spec => []NothingLost
<1>1. QueuesOK => NothingLost
  BY QueueNothingLost DEF QueuesOK, NothingLost, Sound, LentOnce
<1> QED
  BY <1>1, AlwaysQueues, PTL

\* The packets a socket holds are those it uses.
LEMMA HeldIs ==
    ASSUME TypeInv, NEW s \in Sockets, NEW k \in Seq(Packets), Listed(s, k)
    PROVE  \A p : p \in Held(s) <=> p \in Packets /\ Uses(s, k, p)
<1>1. Chain(s) = k
  BY ChainIs
<1>2. ToSet(k) = {k[i] : i \in 1 .. Len(k)} /\ \A i \in 1 .. Len(k) : k[i] \in Packets
  BY DEF ToSet
<1>3. filling[s] # Nil => filling[s].packet \in Packets
  BY TypeParts DEF FillingType
<1>4. freeing[s] # Nil => freeing[s] \in Packets
  BY TypeParts
<1> QED
  BY <1>1, <1>2, <1>3, <1>4 DEF Held, Uses

LEMMA QueueNoLeak ==
    ASSUME TypeInv, NEW q \in Queues, QueueInv(q)
    PROVE  NoLeak
<1> DEFINE H(c) == {p \in UNION {Held(s) : s \in Sockets} : p[1] = c}
<1> SUFFICES ASSUME NEW c \in Classes PROVE used[c] = Cardinality(H(c))
  BY DEF NoLeak
<1>1. \A s \in Sockets : \A p : p \in Held(s) <=> p \in Packets /\ Uses(s, q[s], p)
  <2> SUFFICES ASSUME NEW s \in Sockets
               PROVE  \A p : p \in Held(s) <=> p \in Packets /\ Uses(s, q[s], p)
    OBVIOUS
  <2>1. q[s] \in Seq(Packets) /\ Listed(s, q[s])
    BY DEF Queues, QueueInv, SocketInv
  <2> QED
    BY <2>1, HeldIs
<1>2. \A i \in Index : live[c][i] = 1 <=> \E s \in Sockets : Uses(s, q[s], <<c, i>>)
  BY DEF QueueInv, PoolsInv
<1>3. \A i \in Out(c) : <<c, i>> \in H(c)
  <2> SUFFICES ASSUME NEW i \in Out(c) PROVE <<c, i>> \in H(c)
    OBVIOUS
  <2>1. i \in Index /\ <<c, i>> \in Packets
    BY DEF Out, Packets
  <2>2. PICK s \in Sockets : Uses(s, q[s], <<c, i>>)
    BY <1>2 DEF Out
  <2>3. <<c, i>> \in Held(s)
    BY <1>1, <2>1, <2>2
  <2> QED
    BY <2>3
<1>4. \A p \in H(c) : p[2] \in Out(c) /\ p = <<c, p[2]>>
  <2> SUFFICES ASSUME NEW p \in H(c) PROVE p[2] \in Out(c) /\ p = <<c, p[2]>>
    OBVIOUS
  <2>1. PICK s \in Sockets : p \in Held(s)
    OBVIOUS
  <2>2. p \in Packets /\ Uses(s, q[s], p) /\ p[1] = c
    BY <1>1, <2>1
  <2>3. p[2] \in Index /\ p = <<c, p[2]>>
    BY <2>2, PacketParts
  <2> QED
    BY <1>2, <2>2, <2>3 DEF Out
<1> HIDE DEF H
<1> DEFINE f == [i \in Out(c) |-> <<c, i>>]
<1>5. f \in Bijection(Out(c), H(c))
  <2>1. f \in [Out(c) -> H(c)]
    BY <1>3
  <2>2. \A i, j \in Out(c) : f[i] = f[j] => i = j
    OBVIOUS
  <2>3. \A p \in H(c) : p[2] \in Out(c) /\ f[p[2]] = p
    BY <1>4
  <2> HIDE DEF f
  <2> QED
    BY <2>1, <2>2, <2>3 DEF Bijection, Injection, Surjection, IsInjective
<1>6. Cardinality(H(c)) = Cardinality(Out(c))
  <2>1. ExistsBijection(Out(c), H(c))
    BY <1>5, Zenon DEF ExistsBijection
  <2> QED
    BY <2>1, OutFinite, FS_Bijection
<1>7. used[c] = Cardinality(Out(c))
  BY DEF QueueInv, PoolsInv
<1> QED
  BY <1>6, <1>7

\* NoLeak: as long as no packet is lent twice or overflows, a pool counts exactly the
\* packets that the sockets hold (PacketSelector, _used).
THEOREM PoolsCountExactly == Spec => []NoLeak
<1>1. QueuesOK => NoLeak
  BY QueueNoLeak DEF QueuesOK, NoLeak, Sound, LentOnce
<1> QED
  BY <1>1, AlwaysQueues, PTL

-----------------------------------------------------------------------------
(* What a step writes into a packet                                        *)

SameContent(p) ==
    /\ mem'[p].msgs = mem[p].msgs
    /\ mem'[p].size = mem[p].size /\ mem'[p].remain = mem[p].remain

\* A message of socket s goes behind those that packet p holds.
Gains(p, s, len) ==
    /\ mem'[p].msgs = Append(mem[p].msgs, Message(s, len))
    /\ mem'[p].size = mem[p].size + (len + HDR)
    /\ mem'[p].remain = (mem[p].remain - (len + HDR)) % Wrap

LEMMA AppendWrites ==
    ASSUME TypeInv, NEW s \in Sockets, NEW len \in Lens, NEW imm, SendAppend(s, len, imm)
    PROVE  LET p == lastPacket[s] IN
           /\ p \in Packets /\ Gains(p, s, len)
           /\ ~mem[p].sending /\ len + HDR <= mem[p].remain
           /\ \A t \in Packets : t # p => mem'[t] = mem[t]
<1> DEFINE p == lastPacket[s]
           a == Append(mem[p].msgs, Message(s, len))
           b == mem[p].size + (len + HDR)
           c == (mem[p].remain - (len + HDR)) % Wrap
<1>1. p \in Packets /\ ~mem[p].sending /\ mem[p].remain >= len + HDR
  BY TypeParts DEF SendAppend, CanAppend
<1>2. mem[p] \in PacketType /\ mem \in [Packets -> PacketType]
  BY <1>1, TypeParts
<1>3. len \in Nat /\ mem[p].size \in Nat /\ mem[p].remain \in Nat
  BY <1>2, LensAreNat DEF PacketType
<1>4. mem[p].size + len + HDR = b /\ len + HDR <= mem[p].remain
  <2> HIDE DEF p
  <2> QED
    BY <1>1, <1>3 DEF HDR
<1>5. mem' = [mem EXCEPT ![p] = [mem[p] EXCEPT !.msgs = a, !.size = b, !.remain = c]]
  <2>1. mem' = [mem EXCEPT ![p].msgs = Append(@, Message(s, len)),
                           ![p].size = @ + len + HDR,
                           ![p].remain = (@ - (len + HDR)) % Wrap]
    BY DEF SendAppend
  <2>2. mem' = [mem EXCEPT ![p] = [mem[p] EXCEPT !.msgs = a, !.size = mem[p].size + len + HDR,
                                                 !.remain = c]]
    BY <1>1, <1>2, <2>1 DEF PacketType
  <2> QED
    BY <1>4, <2>2
<1> HIDE DEF a, b, c
<1>6. /\ \A t \in Packets : t # p => mem'[t] = mem[t]
      /\ mem'[p] = [mem[p] EXCEPT !.msgs = a, !.size = b, !.remain = c]
  <2> HIDE DEF p
  <2> QED
    BY <1>1, <1>2, <1>5
<1>7. mem'[p].msgs = a /\ mem'[p].size = b /\ mem'[p].remain = c
  BY <1>2, <1>6 DEF PacketType
<1> QED
  BY <1>1, <1>4, <1>6, <1>7 DEF Gains, a, b, c

\* The packet a Send got is filled.
LEMMA FilledGains ==
    ASSUME TypeInv, NEW s \in Sockets, NEW k \in Seq(Packets), filling[s] # Nil, SocketInv(s, k),
           LET p == filling[s].packet IN
           /\ mem'[p].msgs = Filled(s).msgs
           /\ mem'[p].size = Filled(s).size /\ mem'[p].remain = Filled(s).remain
    PROVE  Gains(filling[s].packet, s, filling[s].len)
<1> DEFINE p == filling[s].packet
<1>1. p \in Packets /\ filling[s].len \in Nat
  BY FillingParts, LensAreNat
<1>2. mem[p].msgs = <<>> /\ mem[p].size = 0
  BY DEF SocketInv, Outside, Released
<1>3. Append(<<>>, Message(s, filling[s].len)) = <<Message(s, filling[s].len)>>
  OBVIOUS
<1>4. 0 + (filling[s].len + HDR) = filling[s].len + HDR
  BY <1>1 DEF HDR
<1> QED
  BY <1>2, <1>3, <1>4, FilledParts DEF Gains

LEMMA FirstWrites ==
    ASSUME TypeInv, NEW s \in Sockets, NEW k \in Seq(Packets), SocketInv(s, k), SendFirst(s)
    PROVE  LET p == filling[s].packet IN
           /\ filling[s] # Nil /\ p \in Packets /\ filling[s].len \in Lens
           /\ Gains(p, s, filling[s].len)
           /\ \A t \in Packets : t # p => mem'[t] = mem[t]
<1> DEFINE p == filling[s].packet
<1>1. filling[s] # Nil /\ mem' = [mem EXCEPT ![p] = [Filled(s) EXCEPT !.sending = TRUE]]
  BY DEF SendFirst
<1>2. p \in Packets /\ filling[s].len \in Lens /\ Filled(s) \in PacketType
  BY <1>1, FillingParts, FilledParts
<1>3. \A t \in Packets : mem'[t] = IF t = p THEN [Filled(s) EXCEPT !.sending = TRUE] ELSE mem[t]
  <2> HIDE DEF p
  <2> QED
    BY <1>1, <1>2, TypeParts
<1>4. mem'[p] = [Filled(s) EXCEPT !.sending = TRUE]
  <2> HIDE DEF p
  <2> QED
    BY <1>2, <1>3
<1>5. /\ mem'[p].msgs = Filled(s).msgs
      /\ mem'[p].size = Filled(s).size /\ mem'[p].remain = Filled(s).remain
  BY <1>2, <1>4 DEF PacketType
<1> QED
  BY <1>1, <1>2, <1>3, <1>5, FilledGains

LEMMA QueuedWrites ==
    ASSUME TypeInv, InFlightInv, NEW s \in Sockets, NEW k \in Seq(Packets), SocketInv(s, k),
           SendQueued(s)
    PROVE  LET p == filling[s].packet
               last == lastPacket[s] IN
           /\ filling[s] # Nil /\ p \in Packets /\ filling[s].len \in Lens
           /\ Gains(p, s, filling[s].len)
           /\ last \in Packets /\ last # p /\ SameContent(last)
           /\ \A t \in Packets : t # p /\ t # last => mem'[t] = mem[t]
<1> DEFINE p == filling[s].packet
           last == lastPacket[s]
<1>1. /\ filling[s] # Nil /\ sendingPacket[s] # Nil
      /\ mem' = [[mem EXCEPT ![p] = Filled(s)] EXCEPT ![last].next = p]
  BY DEF SendQueued
<1>2. p \in Packets /\ filling[s].len \in Lens /\ Filled(s) \in PacketType
  BY <1>1, FillingParts, FilledParts
<1>3. last \in Packets /\ last # p
  <2>1. k # <<>> /\ Len(k) \in 1 .. Len(k) /\ k[Len(k)] \in Packets
    BY <1>1, QueueParts DEF SocketInv
  <2> QED
    BY <1>1, <2>1, FillingUnused DEF SocketInv, Listed
<1>4. /\ \A t \in Packets : t # p /\ t # last => mem'[t] = mem[t]
      /\ mem'[p] = Filled(s) /\ mem'[last] = [mem[last] EXCEPT !.next = p]
  <2> DEFINE m == [mem EXCEPT ![p] = Filled(s)]
  <2> HIDE DEF p, last
  <2>1. m \in [Packets -> PacketType] /\ \A t \in Packets : m[t] = IF t = p THEN Filled(s) ELSE mem[t]
    BY <1>2, TypeParts
  <2>2. mem' = [m EXCEPT ![last] = [m[last] EXCEPT !.next = p]]
    BY <1>1
  <2> HIDE DEF m
  <2>3. \A t \in Packets : mem'[t] = IF t = last THEN [m[last] EXCEPT !.next = p] ELSE m[t]
    BY <2>1, <2>2
  <2> QED
    BY <1>2, <1>3, <2>1, <2>3
<1>5. SameContent(last)
  <2>1. mem[last] \in PacketType
    BY <1>3, TypeParts
  <2> HIDE DEF last
  <2> QED
    BY <1>4, <2>1 DEF SameContent, PacketType
<1> QED
  BY <1>1, <1>2, <1>3, <1>4, <1>5, FilledGains

LEMMA CallbackWrites ==
    ASSUME TypeInv, NEW s \in Sockets, WriteCallback(s)
    PROVE  LET next == mem[sendingPacket[s]].next IN
           /\ \A t \in Packets : SameContent(t) /\ (t # next => mem'[t] = mem[t])
           /\ next = Nil => mem' = mem
           /\ next # Nil => next \in Packets /\ mem'[next].sending
<1> DEFINE next == mem[sendingPacket[s]].next
<1>1. next \in Packets \cup {Nil}
  BY TypeParts DEF WriteCallback, PacketType
<1>2. CASE next = Nil
  BY <1>2 DEF WriteCallback, SameContent
<1>3. CASE next # Nil
  <2>1. mem' = [mem EXCEPT ![next] = [mem[next] EXCEPT !.sending = TRUE]]
    BY <1>3 DEF WriteCallback
  <2>2. next \in Packets /\ mem[next] \in PacketType
    BY <1>1, <1>3, TypeParts
  <2>3. /\ \A t \in Packets : t # next => mem'[t] = mem[t]
        /\ mem'[next] = [mem[next] EXCEPT !.sending = TRUE]
    <3> HIDE DEF next
    <3> QED
      BY <2>1, <2>2, TypeParts
  <2>4. SameContent(next) /\ mem'[next].sending
    <3> HIDE DEF next
    <3> QED
      BY <2>2, <2>3 DEF SameContent, PacketType
  <2> HIDE DEF next
  <2>5. \A t \in Packets : SameContent(t)
    BY <2>3, <2>4 DEF SameContent
  <2> QED
    BY <1>3, <2>2, <2>3, <2>4, <2>5 DEF next
<1> QED
  BY <1>2, <1>3

\* The packets in a queue, and the one that a handler holds besides.
LEMMA QueuedApart ==
    ASSUME TypeInv, NEW q \in Queues, QueueInv(q), NEW s \in Sockets, NEW i \in 1 .. Len(q[s])
    PROVE  /\ q[s][i] \in Packets /\ Uses(s, q[s], q[s][i])
           /\ \A t \in Sockets : /\ filling[t] # Nil => filling[t].packet # q[s][i]
                                 /\ freeing[t] # Nil => freeing[t] # q[s][i]
<1>1. q[s][i] \in Packets /\ Uses(s, q[s], q[s][i])
  BY DEF Queues, Uses
<1>2. \A t \in Sockets : /\ filling[t] # Nil /\ filling[t].packet = q[s][i] => t = s
                         /\ freeing[t] # Nil /\ freeing[t] = q[s][i] => t = s
  <2>1. \A t \in Sockets : /\ filling[t] # Nil => Uses(t, q[t], filling[t].packet)
                           /\ freeing[t] # Nil => Uses(t, q[t], freeing[t])
    BY DEF Uses
  <2> QED
    BY <1>1, <2>1 DEF QueueInv, PoolsInv
<1>3. /\ filling[s] # Nil => filling[s].packet # q[s][i]
      /\ freeing[s] # Nil => freeing[s] # q[s][i]
  BY DEF QueueInv, SocketInv, Outside
<1> QED
  BY <1>1, <1>2, <1>3

\* A packet keeps its content, or is Released (and then is in no queue, unless it is
\* lent a second time), or one Send puts a message into it.
ContentChange(q, p) ==
    \/ SameContent(p)
    \/ /\ mem'[p] = Released(p[1])
       /\ LentOnce' => \A t \in Sockets : \A i \in 1 .. Len(q[t]) : q[t][i] # p
    \/ \E s \in Sockets, len \in Lens :
        /\ Gains(p, s, len)
        /\ \/ p = lastPacket[s] /\ ~mem[p].sending /\ len + HDR <= mem[p].remain
           \/ filling[s] # Nil /\ p = filling[s].packet /\ len = filling[s].len

LEMMA ContentStep ==
    ASSUME TypeInv, InFlightInv, NEW q \in Queues, QueueInv(q), [Next]_vars,
           NEW p \in Packets
    PROVE  ContentChange(q, p)
<1>1. \A s \in Sockets : q[s] \in Seq(Packets) /\ SocketInv(s, q[s])
  BY DEF Queues, QueueInv
<1>2. ASSUME mem'[p] = mem[p] PROVE ContentChange(q, p)
  BY <1>2 DEF ContentChange, SameContent
<1>3. ASSUME NEW s \in Sockets, SendFirst(s) PROVE ContentChange(q, p)
  <2>1. CASE p = filling[s].packet
    BY <1>1, <1>3, <2>1, FirstWrites DEF ContentChange
  <2>2. CASE p # filling[s].packet
    BY <1>1, <1>2, <1>3, <2>2, FirstWrites
  <2> QED
    BY <2>1, <2>2
<1>4. ASSUME NEW s \in Sockets, SendQueued(s) PROVE ContentChange(q, p)
  <2>1. CASE p = filling[s].packet
    BY <1>1, <1>4, <2>1, QueuedWrites DEF ContentChange
  <2>2. CASE p = lastPacket[s]
    BY <1>1, <1>4, <2>2, QueuedWrites DEF ContentChange
  <2>3. CASE p # filling[s].packet /\ p # lastPacket[s]
    BY <1>1, <1>2, <1>4, <2>3, QueuedWrites
  <2> QED
    BY <2>1, <2>2, <2>3
<1>5. ASSUME NEW s \in Sockets, NEW m \in Messages, SendAppend(s, m[1], m[2])
      PROVE  ContentChange(q, p)
  <2>1. m[1] \in Lens
    BY SendTypes
  <2>2. CASE p = lastPacket[s]
    BY <1>5, <2>1, <2>2, AppendWrites DEF ContentChange
  <2>3. CASE p # lastPacket[s]
    BY <1>2, <1>5, <2>1, <2>3, AppendWrites
  <2> QED
    BY <2>2, <2>3
<1>6. ASSUME NEW s \in Sockets, NEW m \in Messages, SendAlloc(s, m[1], m[2])
      PROVE  ContentChange(q, p)
  <2>1. PICK c \in Classes : c = ClassOf(m[1]) /\ used[c] # PoolSize
    BY <1>6, ClassOfFits DEF SendAlloc
  <2>2. PICK x \in Packets :
          /\ x = <<c, used[c]>>
          /\ LentOnce' => \A t \in Sockets : ~Uses(t, q[t], x)
    <3>1. used[c] \in Index /\ <<c, used[c]>> \in Packets
      BY <2>1, TypeParts, BoundsAssumption DEF Index, Packets
    <3>2. LentOnce' => \A t \in Sockets : ~Uses(t, q[t], <<c, used[c]>>)
      BY <1>6, <2>1, AllocFresh DEF QueueInv
    <3> QED
      BY <3>1, <3>2
  <2>3. mem' = [mem EXCEPT ![x] = Released(c)]
    BY <1>6, <2>1, <2>2 DEF SendAlloc
  <2>4. \A t \in Packets : mem'[t] = IF t = x THEN Released(c) ELSE mem[t]
    BY <2>3, TypeParts
  <2>5. CASE p = x
    <3>1. mem'[p] = Released(p[1])
      BY <2>2, <2>4, <2>5
    <3>2. LentOnce' => \A t \in Sockets : \A j \in 1 .. Len(q[t]) : q[t][j] # p
      BY <2>2, <2>5 DEF Uses
    <3> QED
      BY <3>1, <3>2 DEF ContentChange
  <2>6. CASE p # x
    BY <1>2, <2>4, <2>6
  <2> QED
    BY <2>5, <2>6
<1>7. ASSUME NEW s \in Sockets, NEW m \in Messages,
             SendAllocFull(s, m[1], m[2]) \/ SendTooLong(s, m[1], m[2])
      PROVE  ContentChange(q, p)
  BY <1>2, <1>7 DEF SendAllocFull, SendTooLong
<1>8. ASSUME NEW s \in Sockets, WriteCallback(s) PROVE ContentChange(q, p)
  BY <1>8, CallbackWrites DEF ContentChange
<1>9. ASSUME NEW s \in Sockets, FreePacket(s) PROVE ContentChange(q, p)
  <2>1. freeing[s] # Nil /\ mem' = [mem EXCEPT ![freeing[s]] = Released(freeing[s][1])]
    BY <1>9 DEF FreePacket
  <2>2. \A t \in Packets : mem'[t] = IF t = freeing[s] THEN Released(freeing[s][1]) ELSE mem[t]
    BY <2>1, TypeParts
  <2>3. CASE p = freeing[s]
    <3>1. \A t \in Sockets : \A j \in 1 .. Len(q[t]) : q[t][j] # p
      BY <2>1, <2>3, QueuedApart
    <3> QED
      BY <2>2, <2>3, <3>1 DEF ContentChange
  <2>4. CASE p # freeing[s]
    BY <1>2, <2>2, <2>4
  <2> QED
    BY <2>3, <2>4
<1>10. ASSUME NEW s \in Sockets, Kernel(s) PROVE ContentChange(q, p)
  BY <1>2, <1>10 DEF Kernel, Transmit, BreakConnection, FailPosted
<1>11. CASE UNCHANGED vars
  BY <1>2, <1>11 DEF vars
<1> QED
  BY <1>3, <1>4, <1>5, <1>6, <1>7, <1>8, <1>9, <1>10, <1>11 DEF Next, Send, OnWriteCallback

LEMMA PostedKeptStep ==
    ASSUME TypeInv, InFlightInv, NEW q \in Queues, QueueInv(q), [Next]_vars, LentOnce',
           NEW s \in Sockets, posted[s] # <<>>
    PROVE  LET p == Head(posted[s]).packet IN mem'[p].msgs = mem[p].msgs
<1> DEFINE p == q[s][1]
<1>1. q[s] # <<>> /\ posted[s] = <<[packet |-> p, len |-> Len(mem[p].msgs)]>>
  BY DEF QueueInv, SocketInv, Posts
<1>2. Head(posted[s]).packet = p
  BY <1>1
<1>3. q[s] \in Seq(Packets) /\ 1 \in 1 .. Len(q[s])
  BY <1>1 DEF Queues
<1>4. p \in Packets /\ mem[p].sending
  BY <1>3, QueuedApart DEF QueueInv, SocketInv, Listed
<1>5. \A t \in Sockets : filling[t] # Nil => filling[t].packet # p
  BY <1>3, QueuedApart
<1>6. ContentChange(q, p)
  BY <1>4, ContentStep
<1>7. SameContent(p)
  <2> HIDE DEF p
  <2>1. \A t \in Sockets : ~(filling[t] # Nil /\ p = filling[t].packet)
    BY <1>5
  <2>2. \E t \in Sockets : \E i \in 1 .. Len(q[t]) : q[t][i] = p
    BY <1>3 DEF p
  <2> QED
    BY <1>4, <1>6, <2>1, <2>2 DEF ContentChange
<1> QED
  BY <1>2, <1>7 DEF SameContent

\* PostedBufferKept: as long as no packet is lent twice or overflows, the messages in the
\* buffer that the kernel has are not touched until its send is over, neither by a Send
\* of the same socket nor through the pools (TCPSocket.cpp:157-208).
THEOREM KernelBufferKept == Spec => PostedBufferKept
<1> DEFINE Kept == Sound' => \A s \in Sockets : posted[s] # <<>> /\ posted'[s] = posted[s]
                     => LET p == Head(posted[s]).packet IN mem'[p].msgs = mem[p].msgs
<1>1. QueuesOK /\ [Next]_vars => [Kept]_vars
  <2> SUFFICES ASSUME QueuesOK, [Next]_vars, LentOnce, LentOnce' PROVE Kept
    BY StepRuns DEF Sound, LentOnce
  <2> QED
    BY PostedKeptStep DEF QueuesOK
<1> QED
  BY <1>1, AlwaysQueues, PTL DEF Spec, PostedBufferKept, Kept

-----------------------------------------------------------------------------
(* The sockets use the pools as the pools are built for                    *)

\* The last packet of a queue has a message.
LastWritten == \A s \in Sockets : lastPacket[s] # Nil => mem[lastPacket[s]].msgs # <<>>

LEMMA GainedNotEmpty ==
    ASSUME TypeInv, NEW p \in Packets, NEW s \in Sockets, NEW len \in Lens, Gains(p, s, len)
    PROVE  mem'[p].msgs # <<>>
<1>1. mem[p].msgs \in Seq(Msg) /\ Message(s, len) \in Msg
  BY TypeParts, MessageType DEF PacketType
<1>2. Append(mem[p].msgs, Message(s, len)) # <<>>
  BY <1>1, AppendProperties
<1> QED
  BY <1>2 DEF Gains

\* _lastPacket is set by a Send to the packet it got, and reset with the queue.
LEMMA LastMoves ==
    ASSUME TypeInv, [Next]_vars, NEW t \in Sockets
    PROVE  \/ lastPacket'[t] = lastPacket[t] \/ lastPacket'[t] = Nil
           \/ (SendFirst(t) \/ SendQueued(t)) /\ lastPacket'[t] = filling[t].packet
<1>1. lastPacket \in [Sockets -> Packets \cup {Nil}]
  BY TypeParts
<1>2. ASSUME NEW s \in Sockets, SendFirst(s) \/ SendQueued(s)
      PROVE  lastPacket' = [lastPacket EXCEPT ![s] = filling[s].packet]
  BY <1>2 DEF SendFirst, SendQueued
<1>3. ASSUME NEW s \in Sockets, NEW m \in Messages,
             \/ SendAppend(s, m[1], m[2]) \/ SendAlloc(s, m[1], m[2])
             \/ SendAllocFull(s, m[1], m[2]) \/ SendTooLong(s, m[1], m[2])
      PROVE  lastPacket' = lastPacket
  BY <1>3 DEF SendAppend, SendAlloc, SendAllocFull, SendTooLong, queues
<1>4. ASSUME NEW s \in Sockets, WriteCallback(s)
      PROVE  lastPacket' = lastPacket \/ lastPacket' = [lastPacket EXCEPT ![s] = Nil]
  BY <1>4 DEF WriteCallback
<1>5. ASSUME NEW s \in Sockets, FreePacket(s) \/ Kernel(s) PROVE lastPacket' = lastPacket
  BY <1>5 DEF FreePacket, Kernel, Transmit, BreakConnection, FailPosted, queues
<1>6. CASE UNCHANGED vars
  BY <1>6 DEF vars, queues
<1>7. ASSUME NEW s \in Sockets, Send(s)
      PROVE  lastPacket' = lastPacket \/ SendFirst(s) \/ SendQueued(s)
  BY <1>3, <1>7 DEF Send
<1> QED
  BY <1>1, <1>2, <1>4, <1>5, <1>6, <1>7 DEF Next, OnWriteCallback

LEMMA WrittenStep ==
    ASSUME TypeInv, InFlightInv, NEW q \in Queues, QueueInv(q), LastWritten, [Next]_vars, LentOnce'
    PROVE  LastWritten'
<1> SUFFICES ASSUME NEW t \in Sockets, lastPacket'[t] # Nil
             PROVE  mem'[lastPacket'[t]].msgs # <<>>
  BY DEF LastWritten
<1>1. q[t] \in Seq(Packets) /\ SocketInv(t, q[t])
  BY DEF Queues, QueueInv
<1>2. CASE lastPacket'[t] = lastPacket[t]
  <2>1. PICK p \in Packets : p = lastPacket[t] /\ mem[p].msgs # <<>>
    BY <1>2, TypeParts DEF LastWritten
  <2>2. q[t] # <<>> /\ p = q[t][Len(q[t])] /\ Len(q[t]) \in 1 .. Len(q[t])
    BY <1>1, <1>2, <2>1, QueueParts DEF SocketInv, Listed
  <2>3. ContentChange(q, p)
    BY ContentStep
  <2>4. mem'[p].msgs # <<>>
    <3>1. CASE SameContent(p)
      BY <2>1, <3>1 DEF SameContent
    <3>2. ASSUME NEW s \in Sockets, NEW len \in Lens, Gains(p, s, len) PROVE mem'[p].msgs # <<>>
      BY <3>2, GainedNotEmpty
    <3> QED
      BY <2>2, <2>3, <3>1, <3>2 DEF ContentChange
  <2> QED
    BY <1>2, <2>1, <2>4
<1>3. CASE (SendFirst(t) \/ SendQueued(t)) /\ lastPacket'[t] = filling[t].packet
  <2>1. /\ filling[t].packet \in Packets /\ filling[t].len \in Lens
        /\ Gains(filling[t].packet, t, filling[t].len)
    BY <1>1, <1>3, FirstWrites, QueuedWrites
  <2> QED
    BY <1>3, <2>1, GainedNotEmpty
<1> QED
  BY <1>2, <1>3, LastMoves

\* A step that writes into one packet that is out.
LEMMA PoolWrite ==
    ASSUME TypeInv, NEW p \in Packets, live[p[1]][p[2]] = 1, mem'[p] # Released(p[1]),
           UNCHANGED <<used, live, answer>>,
           \A t \in Packets : t # p =>
               (mem'[t] # Released(t[1]) <=> mem[t] # Released(t[1]))
    PROVE  \A c \in Classes : [Pool(c)!Next]_(Pool(c)!vars)
<1> SUFFICES ASSUME NEW c \in Classes PROVE [Pool(c)!Next]_(Pool(c)!vars)
  OBVIOUS
<1> DEFINE D == {i \in Index : mem[<<c, i>>] # Released(c)}
           E == {i \in Index : mem'[<<c, i>>] # Released(c)}
<1>1. p[1] \in Classes /\ p[2] \in Index /\ p = <<p[1], p[2]>>
  BY PacketParts
<1>2. \A i \in Index : <<c, i>> \in Packets /\ <<c, i>>[1] = c
  BY DEF Packets
<1>3. CASE c = p[1]
  <2>1. \A i \in Index : <<c, i>> = p <=> i = p[2]
    BY <1>1, <1>3
  <2>2. E = D \cup {p[2]}
    BY <1>1, <1>2, <1>3, <2>1
  <2>3. Pool(c)!Write(p[2])
    BY <1>3, <2>2 DEF Pool!Write
  <2> QED
    BY <1>1, <2>3 DEF Pool!Next, Pool!Slots, Index
<1>4. CASE c # p[1]
  <2>1. E = D
    BY <1>1, <1>2, <1>4
  <2> QED
    BY <2>1 DEF Pool!vars
<1> QED
  BY <1>3, <1>4

\* A step that leaves the pools and the packets alone.
LEMMA PoolStutter ==
    ASSUME UNCHANGED <<mem, used, live, answer>>
    PROVE  \A c \in Classes : [Pool(c)!Next]_(Pool(c)!vars)
  BY DEF Pool!vars

LEMMA PoolAlloc ==
    ASSUME TypeInv, NEW s \in Sockets, NEW len \in Lens, NEW imm \in BOOLEAN,
           SendAlloc(s, len, imm)
    PROVE  \A c \in Classes : [Pool(c)!Next]_(Pool(c)!vars)
<1>1. PICK d \in Classes : d = ClassOf(len) /\ used[d] # PoolSize
  BY ClassOfFits DEF SendAlloc
<1>2. PICK i \in Index : i = used[d] /\ <<d, i>> \in Packets
  BY <1>1, TypeParts, BoundsAssumption DEF Index, Packets
<1>3. /\ mem' = [mem EXCEPT ![<<d, i>>] = Released(d)]
      /\ used' = [used EXCEPT ![d] = i + 1]
      /\ live' = [live EXCEPT ![d] = [live[d] EXCEPT ![i] = live[d][i] + 1]]
      /\ answer' = [answer EXCEPT ![d] = i]
  BY <1>1, <1>2, TypeParts DEF SendAlloc
<1>4. /\ \A t \in Packets : mem'[t] = IF t = <<d, i>> THEN Released(d) ELSE mem[t]
      /\ used'[d] = i + 1 /\ answer'[d] = i
      /\ live'[d] = [live[d] EXCEPT ![i] = live[d][i] + 1]
      /\ \A c \in Classes : c # d =>
            used'[c] = used[c] /\ live'[c] = live[c] /\ answer'[c] = answer[c]
  <2>1. /\ mem \in [Packets -> PacketType] /\ used \in [Classes -> 0 .. PoolSize]
        /\ live \in [Classes -> [Index -> Nat]] /\ answer \in [Classes -> Index \cup {Nil}]
    BY TypeParts DEF TypeInv
  <2> QED
    BY <1>3, <2>1
<1> SUFFICES ASSUME NEW c \in Classes PROVE [Pool(c)!Next]_(Pool(c)!vars)
  OBVIOUS
<1> DEFINE D == {j \in Index : mem[<<c, j>>] # Released(c)}
           E == {j \in Index : mem'[<<c, j>>] # Released(c)}
<1>5. \A j \in Index : <<c, j>> \in Packets
  BY DEF Packets
<1>6. CASE c = d
  <2>1. \A j \in Index : <<c, j>> = <<d, i>> <=> j = i
    BY <1>6
  <2>2. E = D \ {i}
    BY <1>4, <1>5, <1>6, <2>1
  <2>3. Pool(c)!Alloc
    BY <1>1, <1>2, <1>3, <1>4, <1>6, <2>2 DEF Pool!Alloc
  <2> QED
    BY <2>3 DEF Pool!Next
<1>7. CASE c # d
  <2>1. E = D
    BY <1>4, <1>5, <1>7
  <2> QED
    BY <1>3, <1>4, <1>7, <2>1 DEF Pool!vars
<1> QED
  BY <1>6, <1>7

LEMMA PoolRefuse ==
    ASSUME TypeInv, NEW s \in Sockets, NEW len \in Lens, NEW imm, SendAllocFull(s, len, imm)
    PROVE  \A c \in Classes : [Pool(c)!Next]_(Pool(c)!vars)
<1>1. PICK d \in Classes : d = ClassOf(len) /\ used[d] = PoolSize
  BY ClassOfFits DEF SendAllocFull
<1>2. answer' = [answer EXCEPT ![d] = Nil] /\ UNCHANGED <<mem, used, live>>
  BY <1>1 DEF SendAllocFull
<1>3. answer'[d] = Nil /\ \A c \in Classes : c # d => answer'[c] = answer[c]
  BY <1>2 DEF TypeInv
<1> SUFFICES ASSUME NEW c \in Classes PROVE [Pool(c)!Next]_(Pool(c)!vars)
  OBVIOUS
<1>4. CASE c = d
  <2>1. Pool(c)!AllocFull
    BY <1>1, <1>2, <1>3, <1>4 DEF Pool!AllocFull
  <2> QED
    BY <2>1 DEF Pool!Next
<1>5. CASE c # d
  BY <1>2, <1>3, <1>5 DEF Pool!vars
<1> QED
  BY <1>4, <1>5

LEMMA PoolFree ==
    ASSUME TypeInv, NEW q \in Queues, QueueInv(q), NEW s \in Sockets, FreePacket(s)
    PROVE  \A c \in Classes : [Pool(c)!Next]_(Pool(c)!vars)
<1>1. freeing[s] # Nil
  BY DEF FreePacket
<1>2. PICK d \in Classes, i \in Index :
        /\ d = freeing[s][1] /\ i = freeing[s][2] /\ freeing[s] = <<d, i>>
        /\ live[d][i] = 1 /\ <<d, i>> \in Packets
  BY <1>1, FreeingUsed
<1>3. /\ mem' = [mem EXCEPT ![<<d, i>>] = Released(d)]
      /\ used' = [used EXCEPT ![d] = used[d] - 1]
      /\ live' = [live EXCEPT ![d] = [live[d] EXCEPT ![i] = live[d][i] - 1]]
      /\ UNCHANGED answer
  BY <1>2, TypeParts DEF FreePacket
<1>4. /\ \A t \in Packets : mem'[t] = IF t = <<d, i>> THEN Released(d) ELSE mem[t]
      /\ used'[d] = used[d] - 1
      /\ live'[d] = [live[d] EXCEPT ![i] = live[d][i] - 1]
      /\ \A c \in Classes : c # d => used'[c] = used[c] /\ live'[c] = live[c]
  <2>1. /\ mem \in [Packets -> PacketType] /\ used \in [Classes -> 0 .. PoolSize]
        /\ live \in [Classes -> [Index -> Nat]]
    BY TypeParts DEF TypeInv
  <2> QED
    BY <1>2, <1>3, <2>1
<1> SUFFICES ASSUME NEW c \in Classes PROVE [Pool(c)!Next]_(Pool(c)!vars)
  OBVIOUS
<1> DEFINE D == {j \in Index : mem[<<c, j>>] # Released(c)}
           E == {j \in Index : mem'[<<c, j>>] # Released(c)}
<1>6. \A j \in Index : <<c, j>> \in Packets
  BY DEF Packets
<1>7. CASE c = d
  <2>1. \A j \in Index : <<c, j>> = <<d, i>> <=> j = i
    BY <1>7
  <2>2. E = D \ {i}
    BY <1>4, <1>6, <1>7, <2>1
  <2>3. Pool(c)!Free(i)
    <3>1. live[c][i] > 0
      BY <1>2, <1>7
    <3>2. /\ used'[c] = used[c] - 1 /\ live'[c] = [live[c] EXCEPT ![i] = live[c][i] - 1]
          /\ answer'[c] = answer[c]
      BY <1>3, <1>4, <1>7
    <3> QED
      BY <2>2, <3>1, <3>2, Zenon DEF Pool!Free
  <2> QED
    BY <2>3 DEF Pool!Next, Pool!Slots, Index
<1>8. CASE c # d
  <2>1. E = D
    BY <1>4, <1>6, <1>8
  <2> QED
    BY <1>3, <1>4, <1>8, <2>1 DEF Pool!vars
<1> QED
  BY <1>7, <1>8

\* A Send fills the packet it got; the one linked to it had a message already.
LEMMA PoolFill ==
    ASSUME TypeInv, InFlightInv, NEW q \in Queues, QueueInv(q), LastWritten,
           NEW s \in Sockets, SendFirst(s) \/ SendQueued(s)
    PROVE  \A c \in Classes : [Pool(c)!Next]_(Pool(c)!vars)
<1>1. q[s] \in Seq(Packets) /\ SocketInv(s, q[s])
  BY DEF Queues, QueueInv
<1>2. PICK p \in Packets :
        /\ filling[s] # Nil /\ p = filling[s].packet /\ filling[s].len \in Lens
        /\ Gains(p, s, filling[s].len)
        /\ \A t \in Packets : t # p =>
             \/ mem'[t] = mem[t]
             \/ t = lastPacket[s] /\ SameContent(t)
  BY <1>1, FirstWrites, QueuedWrites
<1>3. \A t \in Packets : mem[t].msgs # <<>> => mem[t] # Released(t[1])
  BY DEF Released
<1>4. \A t \in Packets : mem'[t].msgs # <<>> => mem'[t] # Released(t[1])
  BY DEF Released
<1>5. live[p[1]][p[2]] = 1
  <2>1. Uses(s, q[s], p) /\ p[1] \in Classes /\ p[2] \in Index /\ p = <<p[1], p[2]>>
    BY <1>2, PacketParts DEF Uses
  <2>2. Uses(s, q[s], <<p[1], p[2]>>)
    BY <2>1
  <2> QED
    BY <2>1, <2>2 DEF QueueInv, PoolsInv
<1>6. mem'[p] # Released(p[1])
  BY <1>2, <1>4, GainedNotEmpty
<1>7. \A t \in Packets : t # p => (mem'[t] # Released(t[1]) <=> mem[t] # Released(t[1]))
  <2> SUFFICES ASSUME NEW t \in Packets, t # p, t = lastPacket[s], SameContent(t)
               PROVE  mem'[t] # Released(t[1]) <=> mem[t] # Released(t[1])
    BY <1>2
  <2>1. mem[t].msgs # <<>> /\ mem'[t].msgs # <<>>
    BY PacketParts DEF LastWritten, SameContent
  <2> QED
    BY <1>3, <1>4, <2>1
<1>8. UNCHANGED <<used, live, answer>>
  BY DEF SendFirst, SendQueued, pools
<1> QED
  BY <1>5, <1>6, <1>7, <1>8, PoolWrite

\* A packet in a queue is out.
LEMMA QueuedLive ==
    ASSUME NEW q \in Queues, QueueInv(q), NEW s \in Sockets, NEW i \in 1 .. Len(q[s])
    PROVE  live[q[s][i][1]][q[s][i][2]] = 1
<1> DEFINE p == q[s][i]
<1>1. p \in Packets /\ Uses(s, q[s], p)
  BY DEF Queues, Uses
<1> HIDE DEF p
<1>2. p[1] \in Classes /\ p[2] \in Index /\ p = <<p[1], p[2]>>
  BY <1>1, PacketParts
<1>3. Uses(s, q[s], <<p[1], p[2]>>)
  BY <1>1, <1>2
<1>4. live[p[1]][p[2]] = 1
  BY <1>2, <1>3 DEF QueueInv, PoolsInv
<1> QED
  BY <1>4 DEF p

LEMMA PoolAppend ==
    ASSUME TypeInv, InFlightInv, NEW q \in Queues, QueueInv(q),
           NEW s \in Sockets, NEW len \in Lens, NEW imm, SendAppend(s, len, imm)
    PROVE  \A c \in Classes : [Pool(c)!Next]_(Pool(c)!vars)
<1>1. q[s] \in Seq(Packets) /\ Listed(s, q[s])
  BY DEF Queues, QueueInv, SocketInv
<1>2. PICK p \in Packets : /\ p = lastPacket[s] /\ Gains(p, s, len)
                           /\ \A t \in Packets : t # p => mem'[t] = mem[t]
  BY AppendWrites
<1>3. q[s] # <<>> /\ p = q[s][Len(q[s])] /\ Len(q[s]) \in 1 .. Len(q[s])
  BY <1>1, <1>2, QueueParts, PacketParts DEF Listed
<1>4. live[p[1]][p[2]] = 1
  BY <1>3, QueuedLive
<1>5. mem'[p] # Released(p[1])
  <2>1. mem'[p].msgs # <<>>
    BY <1>2, GainedNotEmpty
  <2> QED
    BY <2>1 DEF Released
<1>6. UNCHANGED <<used, live, answer>>
  BY DEF SendAppend, pools
<1> QED
  BY <1>2, <1>4, <1>5, <1>6, PoolWrite

LEMMA PoolCallback ==
    ASSUME TypeInv, InFlightInv, NEW q \in Queues, QueueInv(q), NEW s \in Sockets, WriteCallback(s)
    PROVE  \A c \in Classes : [Pool(c)!Next]_(Pool(c)!vars)
<1>1. q[s] \in Seq(Packets) /\ Listed(s, q[s])
  BY DEF Queues, QueueInv, SocketInv
<1>2. q[s] # <<>> /\ sendingPacket[s] = q[s][1] /\ 1 \in 1 .. Len(q[s])
  BY <1>1, QueueParts DEF WriteCallback, Listed
<1>3. UNCHANGED <<used, live, answer>>
  BY DEF WriteCallback, pools
<1>4. CASE mem[sendingPacket[s]].next = Nil
  <2>1. mem' = mem
    BY <1>4, CallbackWrites
  <2> QED
    BY <1>3, <2>1, PoolStutter
<1>5. CASE mem[sendingPacket[s]].next # Nil
  <2>1. 1 < Len(q[s]) /\ mem[sendingPacket[s]].next = q[s][2]
    BY <1>1, <1>2, <1>5 DEF Listed
  <2>2. PICK p \in Packets : /\ p = q[s][2] /\ mem'[p].sending
                             /\ \A t \in Packets : t # p => mem'[t] = mem[t]
    BY <1>5, <2>1, CallbackWrites
  <2>3. 2 \in 1 .. Len(q[s])
    BY <1>1, <2>1
  <2>4. live[p[1]][p[2]] = 1
    BY <2>2, <2>3, QueuedLive
  <2>5. mem'[p] # Released(p[1])
    BY <2>2 DEF Released
  <2> QED
    BY <1>3, <2>2, <2>4, <2>5, PoolWrite
<1> QED
  BY <1>4, <1>5

LEMMA PoolStep ==
    ASSUME TypeInv, InFlightInv, NEW q \in Queues, QueueInv(q), LastWritten, [Next]_vars
    PROVE  \A c \in Classes : [Pool(c)!Next]_(Pool(c)!vars)
<1>1. ASSUME NEW s \in Sockets, Send(s)
      PROVE  \A c \in Classes : [Pool(c)!Next]_(Pool(c)!vars)
  <2>1. CASE SendFirst(s) \/ SendQueued(s)
    BY <2>1, PoolFill
  <2>2. ASSUME NEW m \in Messages, SendAppend(s, m[1], m[2])
        PROVE  \A c \in Classes : [Pool(c)!Next]_(Pool(c)!vars)
    BY <2>2, SendTypes, PoolAppend
  <2>3. ASSUME NEW m \in Messages, SendAlloc(s, m[1], m[2])
        PROVE  \A c \in Classes : [Pool(c)!Next]_(Pool(c)!vars)
    BY <2>3, SendTypes, PoolAlloc
  <2>4. ASSUME NEW m \in Messages, SendAllocFull(s, m[1], m[2])
        PROVE  \A c \in Classes : [Pool(c)!Next]_(Pool(c)!vars)
    BY <2>4, SendTypes, PoolRefuse
  <2>5. ASSUME NEW m \in Messages, SendTooLong(s, m[1], m[2])
        PROVE  \A c \in Classes : [Pool(c)!Next]_(Pool(c)!vars)
    <3>1. UNCHANGED <<mem, used, live, answer>>
      BY <2>5 DEF SendTooLong, pools
    <3> QED
      BY <3>1, PoolStutter
  <2> QED
    BY <1>1, <2>1, <2>2, <2>3, <2>4, <2>5 DEF Send
<1>2. ASSUME NEW s \in Sockets, WriteCallback(s)
      PROVE  \A c \in Classes : [Pool(c)!Next]_(Pool(c)!vars)
  BY <1>2, PoolCallback
<1>3. ASSUME NEW s \in Sockets, FreePacket(s)
      PROVE  \A c \in Classes : [Pool(c)!Next]_(Pool(c)!vars)
  BY <1>3, PoolFree
<1>4. ASSUME NEW s \in Sockets, Kernel(s)
      PROVE  \A c \in Classes : [Pool(c)!Next]_(Pool(c)!vars)
  <2>1. UNCHANGED <<mem, used, live, answer>>
    BY <1>4 DEF Kernel, Transmit, BreakConnection, FailPosted, pools
  <2> QED
    BY <2>1, PoolStutter
<1>5. CASE UNCHANGED vars
  <2>1. UNCHANGED <<mem, used, live, answer>>
    BY <1>5 DEF vars, pools
  <2> QED
    BY <2>1, PoolStutter
<1> QED
  BY <1>1, <1>2, <1>3, <1>4, <1>5 DEF Next, OnWriteCallback

LEMMA PoolInit == Init => \A c \in Classes : Pool(c)!Init
<1> SUFFICES ASSUME Init, NEW c \in Classes PROVE Pool(c)!Init
  OBVIOUS
<1>1. \A i \in Index : <<c, i>> \in Packets /\ mem[<<c, i>>] = Released(c)
  BY DEF Init, Packets
<1>2. {i \in Index : mem[<<c, i>>] # Released(c)} = {}
  BY <1>1
<1>3. used[c] = 0 /\ live[c] = [i \in Index |-> 0] /\ answer[c] = Nil
  BY DEF Init
<1> QED
  BY <1>2, <1>3 DEF Pool!Init, Pool!Slots, Index

\* The pools' calls and the written packets in every state.
PoolsOK == QueuesOK /\ (LentOnce => LastWritten)

LEMMA AlwaysWritten == Spec => []PoolsOK
<1>1. Init => (LentOnce => LastWritten)
  BY DEF Init, LastWritten
<1>2. QueuesOK /\ (LentOnce => LastWritten) /\ [Next]_vars => (LentOnce => LastWritten)'
  <2> SUFFICES ASSUME QueuesOK, LentOnce => LastWritten, [Next]_vars, LentOnce'
               PROVE  LastWritten'
    OBVIOUS
  <2>1. CASE UNCHANGED vars
    BY <2>1 DEF vars, queues, pools, LentOnce, LastWritten
  <2>2. CASE LentOnce
    BY <2>2, WrittenStep DEF QueuesOK
  <2> QED
    BY <2>1, <2>2, StepRuns
<1> QED
  BY <1>1, <1>2, AlwaysQueues, PTL DEF Spec, PoolsOK

\* UsesPools: each pool sees only the calls it was built for: a packet is freed once for
\* each time it was allocated, and written only while it is out, so what is proved of
\* AtomicStaticPool holds here (PacketSelector, TCPSocket::Send, OnWriteCallback).
THEOREM PoolsUsedAsBuilt == Spec => UsesPools
<1> DEFINE PoolNext == \A c \in Classes : [Pool(c)!Next]_(Pool(c)!vars)
<1>1. PoolsOK /\ [Next]_vars => [PoolNext]_vars
  <2> SUFFICES ASSUME PoolsOK, [Next]_vars, LentOnce PROVE PoolNext
    BY StepRuns
  <2> QED
    BY PoolStep DEF PoolsOK, QueuesOK
<1>2. Init => \A c \in Classes : Pool(c)!Init
  BY PoolInit
<1> HIDE DEF PoolNext
<1>3. Spec => (\A c \in Classes : Pool(c)!Init) /\ [][PoolNext]_vars
  BY <1>1, <1>2, AlwaysWritten, PTL DEF Spec
<1> QED
  BY <1>3 DEF UsesPools, PoolNext

\* The packets of a pool without a hole that are out are those below _used: there are as
\* many of both.
LEMMA OutPacked ==
    ASSUME TypeInv, NEW q \in Queues, PoolsInv(q), NEW c \in Classes, ~Pool(c)!Hole
    PROVE  \A i \in Index : live[c][i] = IF i < used[c] THEN 1 ELSE 0
<1>1. /\ used[c] \in 0 .. PoolSize /\ PoolSize \in Nat
      /\ \A i \in Index : live[c][i] \in Nat /\ live[c][i] <= 1
  BY TypeParts, BoundsAssumption DEF PoolsInv, LentOnce
<1> DEFINE First == 0 .. used[c] - 1
<1>2. \A i \in Index : ~(i < used[c] /\ live[c][i] = 0)
  BY DEF Pool!Hole, Pool!Slots, Index
<1>3. First \subseteq Out(c)
  <2> SUFFICES ASSUME NEW i \in First PROVE i \in Index /\ live[c][i] = 1
    BY DEF Out
  <2>1. i \in Index /\ i < used[c]
    BY <1>1 DEF Index
  <2> QED
    BY <1>1, <1>2, <2>1
<1>4. Cardinality(First) = used[c]
  <2>1. used[c] - 1 \in Int /\ (IF 0 > used[c] - 1 THEN 0 ELSE used[c] - 1 - 0 + 1) = used[c]
    BY <1>1
  <2> QED
    BY <2>1, FS_Interval
<1>5. used[c] = Cardinality(Out(c)) /\ IsFiniteSet(Out(c))
  BY OutFinite DEF PoolsInv
<1>6. First = Out(c)
  BY <1>3, <1>4, <1>5, FS_Subset
<1> SUFFICES ASSUME NEW i \in Index PROVE live[c][i] = IF i < used[c] THEN 1 ELSE 0
  OBVIOUS
<1>7. i \in Out(c) <=> i < used[c]
  BY <1>1, <1>6 DEF Index
<1> QED
  BY <1>1, <1>7 DEF Out

LEMMA PromiseStep ==
    ASSUME TypeInv, NEW q \in Queues, PoolsInv(q), NEW c \in Classes, ~Pool(c)!Hole,
           [Pool(c)!Next]_(Pool(c)!vars)
    PROVE  [Pool(c)!Exclusively!Next]_(Pool(c)!Exclusively!vars)
<1> DEFINE Lent == {i \in Index : live[c][i] > 0}
<1>0. /\ live[c] \in [Index -> Nat] /\ used[c] \in 0 .. PoolSize /\ PoolSize \in Nat
      /\ \A i \in Index : live[c][i] = IF i < used[c] THEN 1 ELSE 0
  BY TypeParts, OutPacked, BoundsAssumption
<1> USE DEF Pool!Slots, Index
<1> SUFFICES ASSUME Pool(c)!Next
             PROVE  Pool(c)!Exclusively!Next \/ (Lent' = Lent /\ answer'[c] = answer[c])
  BY DEF Pool!vars, Pool!Exclusively!vars
<1>1. CASE Pool(c)!Alloc
  <2>1. used[c] \in Index /\ used[c] \notin Lent
    BY <1>0, <1>1 DEF Pool!Alloc
  <2>2. Lent' = Lent \cup {used[c]} /\ answer'[c] = used[c]
    BY <1>0, <1>1, <2>1 DEF Pool!Alloc
  <2> QED
    BY <2>1, <2>2 DEF Pool!Exclusively!Next, Pool!Exclusively!Lend
<1>2. CASE Pool(c)!AllocFull
  <2>1. Lent = Index /\ Lent' = Lent
    BY <1>0, <1>2 DEF Pool!AllocFull
  <2> QED
    BY <1>2, <2>1 DEF Pool!AllocFull, Pool!Exclusively!Next, Pool!Exclusively!Refuse
<1>3. ASSUME NEW i \in Index, Pool(c)!Free(i) PROVE Pool(c)!Exclusively!Next
  <2>1. live[c][i] = 1
    BY <1>0, <1>3 DEF Pool!Free
  <2>2. i \in Lent /\ Lent' = Lent \ {i}
    BY <1>0, <1>3, <2>1 DEF Pool!Free
  <2> QED
    BY <1>3, <2>2 DEF Pool!Free, Pool!Exclusively!Next, Pool!Exclusively!TakeBack
<1>4. ASSUME NEW i \in Index, Pool(c)!Write(i) PROVE Lent' = Lent /\ answer'[c] = answer[c]
  BY <1>4 DEF Pool!Write
<1> QED
  BY <1>1, <1>2, <1>3, <1>4 DEF Pool!Next

\* PoolsKeepPromise: whatever was freed in whatever order before, a pool in which no packet
\* below _used is free lends, refuses and takes back as ExclusivePool does
\* (AtomicStaticPool.h:44-71).
THEOREM PoolsPromise == Spec => PoolsKeepPromise
<1> DEFINE PoolNext == \A c \in Classes : [Pool(c)!Next]_(Pool(c)!vars)
           Kept == \A c \in Classes : ~Pool(c)!Hole =>
                      [Pool(c)!Exclusively!Next]_(Pool(c)!Exclusively!vars)
<1>1. PoolsOK /\ [Next]_vars => [Kept]_vars
  <2> SUFFICES ASSUME PoolsOK, [Next]_vars, LentOnce PROVE Kept
    BY StepRuns
  <2>1. PICK q \in Queues : QueueInv(q)
    BY DEF PoolsOK, QueuesOK
  <2>2. PoolNext
    BY <2>1, PoolStep DEF PoolsOK, QueuesOK
  <2> QED
    BY <2>1, <2>2, PromiseStep DEF PoolsOK, QueuesOK, QueueInv
<1> HIDE DEF Kept
<1>2. Spec => [][Kept]_vars
  BY <1>1, AlwaysWritten, PTL DEF Spec
<1> QED
  BY <1>2 DEF PoolsKeepPromise, Kept

-----------------------------------------------------------------------------
(* Sums                                                                    *)

\* The element that CHOOSE takes.
Some(T) == CHOOSE x \in T : TRUE

\* f gives the sum of l over every subset of D, as FoldSeq takes it.
Sums(f, l, D) ==
    f = [T \in SUBSET D |->
            IF T = {} THEN 0 ELSE l[Some(T)] + f[T \ {Some(T)}]]

Smaller(D, m) == {T \in SUBSET D : Cardinality(T) <= m}

\* The same for the subsets with at most m elements.
SumsTo(f, l, D, m) ==
    f = [T \in Smaller(D, m) |->
            IF T = {} THEN 0 ELSE l[Some(T)] + f[T \ {Some(T)}]]

LEMMA Subsets ==
    ASSUME NEW D, IsFiniteSet(D), NEW T \in SUBSET D
    PROVE  /\ IsFiniteSet(T) /\ Cardinality(T) \in Nat /\ Cardinality(T) <= Cardinality(D)
           /\ Cardinality(T) = 0 <=> T = {}
           /\ \A x \in T : T \ {x} \in SUBSET D /\ Cardinality(T \ {x}) = Cardinality(T) - 1
           /\ T # {} => Some(T) \in T
<1>1. IsFiniteSet(T) /\ Cardinality(T) <= Cardinality(D)
  BY FS_Subset
<1>2. Cardinality(T) \in Nat /\ (Cardinality(T) = 0 <=> T = {})
  BY <1>1, FS_CardinalityType, FS_EmptySet
<1>3. \A x \in T : Cardinality(T \ {x}) = Cardinality(T) - 1
  BY <1>1, FS_RemoveElement
<1>4. T # {} => Some(T) \in T
  BY DEF Some
<1> QED
  BY <1>1, <1>2, <1>3, <1>4

LEMMA SumsExist ==
    ASSUME NEW l, NEW D, IsFiniteSet(D)
    PROVE  \E f : Sums(f, l, D)
<1> DEFINE S == {m \in Nat : \E f : SumsTo(f, l, D, m)}
<1>1. 0 \in S
  <2> DEFINE f == [T \in Smaller(D, 0) |-> 0]
  <2>1. \A T \in Smaller(D, 0) : T = {}
    BY Subsets DEF Smaller
  <2>2. SumsTo(f, l, D, 0)
    BY <2>1 DEF SumsTo
  <2> QED
    BY <2>2
<1>2. ASSUME NEW m \in Nat, m \in S PROVE m + 1 \in S
  <2>1. PICK f : SumsTo(f, l, D, m)
    BY <1>2
  <2> DEFINE V(h, T) == IF T = {} THEN 0 ELSE l[Some(T)] + h[T \ {Some(T)}]
             g == [T \in Smaller(D, m + 1) |-> IF Cardinality(T) <= m THEN f[T] ELSE V(f, T)]
  <2>2. \A T \in Smaller(D, m) : f[T] = V(f, T)
    BY <2>1, Zenon DEF SumsTo
  <2>3. \A T \in Smaller(D, m) : T \in Smaller(D, m + 1) /\ g[T] = f[T]
    <3>1. \A T \in Smaller(D, m) : Cardinality(T) \in Nat
      BY Subsets DEF Smaller
    <3> HIDE DEF V
    <3> QED
      BY <3>1 DEF Smaller
  <2>4. ASSUME NEW T \in Smaller(D, m + 1) PROVE g[T] = V(g, T)
    <3>1. T \in SUBSET D /\ Cardinality(T) \in Nat /\ Cardinality(T) <= m + 1
      BY Subsets DEF Smaller
    <3>2. CASE T = {}
      <4>1. Cardinality(T) <= m /\ T \in Smaller(D, m)
        BY <3>1, <3>2, FS_EmptySet DEF Smaller
      <4>2. g[T] = f[T] /\ f[T] = 0
        BY <2>2, <2>3, <3>2, <4>1
      <4> HIDE DEF g
      <4> QED
        BY <3>2, <4>2
    <3>3. CASE T # {}
      <4> DEFINE x == Some(T)
      <4>1. T \ {x} \in Smaller(D, m)
        <5>1. x \in T
          BY <3>1, <3>3, Subsets
        <5> HIDE DEF x
        <5>2. T \ {x} \in SUBSET D /\ Cardinality(T \ {x}) = Cardinality(T) - 1
          BY <3>1, <5>1, Subsets
        <5> QED
          BY <3>1, <5>2 DEF Smaller
      <4>2. g[T \ {x}] = f[T \ {x}]
        BY <2>3, <4>1
      <4>3. g[T] = V(f, T)
        <5>1. CASE Cardinality(T) <= m
          <6>1. T \in Smaller(D, m)
            BY <3>1, <5>1 DEF Smaller
          <6> HIDE DEF V, g
          <6> QED
            BY <2>2, <2>3, <6>1
        <5>2. CASE ~(Cardinality(T) <= m)
          <6> HIDE DEF V
          <6> QED
            BY <5>2
        <5> QED
          BY <5>1, <5>2
      <4>4. V(f, T) = l[x] + f[T \ {x}] /\ V(g, T) = l[x] + g[T \ {x}]
        BY <3>3, Zenon
      <4> HIDE DEF V, g, x
      <4> QED
        BY <4>2, <4>3, <4>4
    <3> QED
      BY <3>2, <3>3
  <2>5. g = [T \in Smaller(D, m + 1) |-> g[T]]
    OBVIOUS
  <2> HIDE DEF g
  <2>6. SumsTo(g, l, D, m + 1)
    BY <2>4, <2>5, Zenon DEF SumsTo
  <2> QED
    BY <2>6
<1>3. Cardinality(D) \in S
  <2>1. Nat \subseteq S
    <3> HIDE DEF S
    <3> QED
      BY <1>1, <1>2, Induction
  <2> QED
    BY <2>1, FS_CardinalityType
<1>4. Smaller(D, Cardinality(D)) = SUBSET D
  BY Subsets DEF Smaller
<1> QED
  BY <1>3, <1>4 DEF Sums, SumsTo

\* The sum of a set is what its elements give, one after the other.
LEMMA SumsOf ==
    ASSUME NEW l, NEW D, NEW f, IsFiniteSet(D), Sums(f, l, D)
    PROVE  /\ \A T \in SUBSET D : Cardinality(T) = 0 => f[T] = 0
           /\ \A T \in SUBSET D : \A m \in Nat : Cardinality(T) = m + 1 =>
                /\ Some(T) \in T /\ Cardinality(T \ {Some(T)}) = m
                /\ f[T] = l[Some(T)] + f[T \ {Some(T)}]
<1>1. \A T \in SUBSET D : f[T] = IF T = {} THEN 0 ELSE l[Some(T)] + f[T \ {Some(T)}]
  BY Zenon DEF Sums
<1>2. \A T \in SUBSET D : Cardinality(T) = 0 => f[T] = 0
  BY <1>1, Subsets
<1>3. ASSUME NEW T \in SUBSET D, NEW m \in Nat, Cardinality(T) = m + 1
      PROVE  /\ Some(T) \in T /\ Cardinality(T \ {Some(T)}) = m
             /\ f[T] = l[Some(T)] + f[T \ {Some(T)}]
  <2>1. T # {}
    BY <1>3, FS_EmptySet
  <2>2. Some(T) \in T
    BY <2>1, Subsets
  <2>3. Cardinality(T \ {Some(T)}) = (m + 1) - 1
    BY <1>3, <2>2, Subsets
  <2>4. f[T] = l[Some(T)] + f[T \ {Some(T)}]
    BY <1>1, <2>1, Zenon
  <2> QED
    BY <2>2, <2>3, <2>4
<1> QED
  BY <1>2, <1>3

\* The sums of numbers.
NatSums(f, l, D) == IsFiniteSet(D) /\ Sums(f, l, D) /\ \A x \in D : l[x] \in Nat

LEMMA SumsType ==
    ASSUME NEW l, NEW D, NEW f, NatSums(f, l, D)
    PROVE  \A T \in SUBSET D : f[T] \in Nat
<1>0. IsFiniteSet(D) /\ Sums(f, l, D) /\ \A x \in D : l[x] \in Nat
  BY DEF NatSums
<1> DEFINE S == {m \in Nat : \A T \in SUBSET D : Cardinality(T) = m => f[T] \in Nat}
<1>1. 0 \in S
  BY <1>0, SumsOf
<1>2. ASSUME NEW m \in Nat, m \in S PROVE m + 1 \in S
  <2>1. ASSUME NEW T \in SUBSET D, Cardinality(T) = m + 1 PROVE f[T] \in Nat
    <3>2. PICK x \in T : f[T] = l[x] + f[T \ {x}]
      BY <1>0, <2>1, SumsOf
    <3>3. T \ {x} \in SUBSET D /\ Cardinality(T \ {x}) = m
      BY <1>0, <2>1, <3>2, Subsets
    <3>4. f[T \ {x}] \in Nat
      BY <1>2, <3>3
    <3> QED
      BY <1>0, <3>2, <3>4
  <2> QED
    BY <2>1
<1>3. Nat \subseteq S
  <2> HIDE DEF S
  <2> QED
    BY <1>1, <1>2, Induction
<1> QED
  BY <1>0, <1>3, Subsets

\* Any element can be taken first.
LEMMA SumsRemove ==
    ASSUME NEW l, NEW D, NEW f, NatSums(f, l, D),
           NEW A \in SUBSET D, NEW a \in A
    PROVE  f[A] = l[a] + f[A \ {a}]
<1>0. IsFiniteSet(D) /\ Sums(f, l, D) /\ \A x \in D : l[x] \in Nat
  BY DEF NatSums
<1> DEFINE S == {m \in Nat : \A T \in SUBSET D : Cardinality(T) = m =>
                                 \A x \in T : f[T] = l[x] + f[T \ {x}]}
<1>1. 0 \in S
  BY <1>0, Subsets
<1>2. ASSUME NEW m \in Nat, m \in S PROVE m + 1 \in S
  <2>1. ASSUME NEW T \in SUBSET D, Cardinality(T) = m + 1, NEW x \in T
        PROVE  f[T] = l[x] + f[T \ {x}]
    <3>1. PICK y \in T : f[T] = l[y] + f[T \ {y}]
      BY <1>0, <2>1, SumsOf
    <3>2. CASE y = x
      BY <3>1, <3>2
    <3>3. CASE y # x
      <4>1. /\ T \ {x} \in SUBSET D /\ Cardinality(T \ {x}) = m
            /\ T \ {y} \in SUBSET D /\ Cardinality(T \ {y}) = m
        BY <1>0, <2>1, Subsets
      <4>2. f[T \ {y}] = l[x] + f[(T \ {y}) \ {x}]
        BY <1>2, <3>3, <4>1
      <4>3. f[T \ {x}] = l[y] + f[(T \ {x}) \ {y}]
        BY <1>2, <3>3, <4>1
      <4>4. (T \ {x}) \ {y} = (T \ {y}) \ {x}
        OBVIOUS
      <4>5. l[x] \in Nat /\ l[y] \in Nat /\ f[(T \ {x}) \ {y}] \in Nat
        BY <1>0, SumsType
      <4>6. PICK u \in Nat, v \in Nat, w \in Nat :
              u = l[x] /\ v = l[y] /\ w = f[(T \ {x}) \ {y}]
        BY <4>5
      <4>7. f[T] = v + (u + w) /\ f[T \ {x}] = v + w
        BY <3>1, <4>2, <4>3, <4>4, <4>6
      <4>8. v + (u + w) = u + (v + w)
        OBVIOUS
      <4> QED
        BY <4>6, <4>7, <4>8
    <3> QED
      BY <3>2, <3>3
  <2> QED
    BY <1>0, <2>1
<1>3. Nat \subseteq S
  <2> HIDE DEF S
  <2> QED
    BY <1>1, <1>2, Induction
<1>4. \A T \in SUBSET D : Cardinality(T) \in S
  BY <1>0, <1>3, Subsets
<1> QED
  BY <1>4

LEMMA SumsAgree ==
    ASSUME NEW l, NEW k, NEW D, NEW E, NEW f, NEW g,
           IsFiniteSet(D), IsFiniteSet(E), D \subseteq E,
           Sums(f, l, D), Sums(g, k, E), \A x \in D : l[x] = k[x]
    PROVE  \A T \in SUBSET D : f[T] = g[T]
<1> DEFINE S == {m \in Nat : \A T \in SUBSET D : Cardinality(T) = m => f[T] = g[T]}
<1>1. 0 \in S
  BY SumsOf
<1>2. ASSUME NEW m \in Nat, m \in S PROVE m + 1 \in S
  <2>1. ASSUME NEW T \in SUBSET D, Cardinality(T) = m + 1 PROVE f[T] = g[T]
    <3>1. T \in SUBSET E
      OBVIOUS
    <3>2. PICK x \in T : f[T] = l[x] + f[T \ {x}] /\ g[T] = k[x] + g[T \ {x}]
      BY <2>1, <3>1, SumsOf
    <3>3. f[T \ {x}] = g[T \ {x}]
      <4>1. T \ {x} \in SUBSET D /\ Cardinality(T \ {x}) = m
        BY <2>1, Subsets
      <4> QED
        BY <1>2, <4>1
    <3> QED
      BY <3>2, <3>3
  <2> QED
    BY <2>1
<1>3. Nat \subseteq S
  <2> HIDE DEF S
  <2> QED
    BY <1>1, <1>2, Induction
<1> QED
  BY <1>3, Subsets

Total(l) == FoldSeq(+, 0, l)

LEMMA TotalIs ==
    ASSUME NEW l
    PROVE  Total(l) = (CHOOSE f : Sums(f, l, DOMAIN l))[DOMAIN l]
  BY DEF Total, FoldSeq, FoldFunction, FoldFunctionOnSet, MapThenFoldSet, Sums, Some

LEMMA TotalEmpty == Total(<<>>) = 0
<1>1. DOMAIN <<>> = {} /\ IsFiniteSet({}) /\ {} \in SUBSET {} /\ Cardinality({}) = 0
  BY FS_EmptySet
<1>2. PICK f : Sums(f, <<>>, {}) /\ Total(<<>>) = f[{}]
  BY <1>1, SumsExist, TotalIs
<1>3. \A T \in SUBSET {} : Cardinality(T) = 0 => f[T] = 0
  BY <1>1, <1>2, SumsOf
<1> QED
  BY <1>1, <1>2, <1>3

\* The sum of numbers, and of one number more.
LEMMA TotalAppend ==
    ASSUME NEW l \in Seq(Nat), NEW y \in Nat
    PROVE  Total(l) \in Nat /\ Total(Append(l, y)) = Total(l) + y
<1> DEFINE n == Len(l)
           k == Append(l, y)
<1>1. /\ n \in Nat /\ DOMAIN l = 1 .. n /\ DOMAIN k = 1 .. n + 1 /\ k[n + 1] = y
      /\ \A i \in 1 .. n : l[i] \in Nat /\ l[i] = k[i]
  OBVIOUS
<1> HIDE DEF n, k
<1>2. IsFiniteSet(1 .. n) /\ IsFiniteSet(1 .. n + 1)
  <2>1. n + 1 \in Int /\ n \in Int /\ 1 \in Int
    BY <1>1
  <2> QED
    BY <2>1, FS_Interval
<1>3. PICK f : Sums(f, l, 1 .. n) /\ Total(l) = f[1 .. n]
  BY <1>1, <1>2, SumsExist, TotalIs
<1>4. PICK g : Sums(g, k, 1 .. n + 1) /\ Total(k) = g[1 .. n + 1]
  BY <1>1, <1>2, SumsExist, TotalIs
<1>5. \A i \in 1 .. n + 1 : k[i] \in Nat
  BY <1>1
<1>6. 1 .. n \subseteq 1 .. n + 1 /\ n + 1 \in 1 .. n + 1 /\ (1 .. n + 1) \ {n + 1} = 1 .. n
  BY <1>1
<1>7. f[1 .. n] \in Nat
  <2>1. NatSums(f, l, 1 .. n) /\ 1 .. n \in SUBSET (1 .. n)
    BY <1>1, <1>2, <1>3 DEF NatSums
  <2> QED
    BY <2>1, SumsType
<1>8. g[1 .. n + 1] = y + g[1 .. n]
  <2> DEFINE E == 1 .. n + 1
  <2>1. E \in SUBSET E /\ n + 1 \in E /\ E \ {n + 1} = 1 .. n
    BY <1>6
  <2>2. NatSums(g, k, E)
    BY <1>2, <1>4, <1>5 DEF NatSums
  <2> HIDE DEF E
  <2>3. g[E] = k[n + 1] + g[E \ {n + 1}]
    BY <2>1, <2>2, SumsRemove
  <2> QED
    BY <1>1, <2>1, <2>3 DEF E
<1>9. f[1 .. n] = g[1 .. n]
  BY <1>1, <1>2, <1>3, <1>4, <1>6, SumsAgree
<1> QED
  BY <1>3, <1>4, <1>7, <1>8, <1>9 DEF k

-----------------------------------------------------------------------------
(* What the sizes say                                                      *)

\* The room that messages take.
LensOf(msgs) == [k \in DOMAIN msgs |-> msgs[k].len + HDR]

\* _size counts what a packet holds, _remainSize the rest of its buffer; what holds more
\* than its buffer is one message, that fits without its header.
Sized(p) ==
    /\ mem[p].size = Total(LensOf(mem[p].msgs))
    /\ IF mem[p].size <= p[1]
       THEN mem[p].size + mem[p].remain = p[1]
       ELSE mem[p].size <= p[1] + HDR /\ Len(mem[p].msgs) = 1

\* The class of a packet about to be filled was chosen for its message.
SizesInv ==
    /\ \A p \in Packets : Sized(p)
    /\ \A s \in Sockets : filling[s] # Nil => filling[s].len <= filling[s].packet[1]

LEMMA LensOfAppend ==
    ASSUME NEW msgs \in Seq(Msg), NEW x \in Msg
    PROVE  /\ LensOf(msgs) \in Seq(Nat) /\ x.len + HDR \in Nat
           /\ LensOf(Append(msgs, x)) = Append(LensOf(msgs), x.len + HDR)
<1>1. \A y \in Msg : y.len + HDR \in Nat
  <2>1. \A y \in Msg : y.len \in Nat
    BY LensAreNat DEF Msg
  <2> QED
    BY <2>1 DEF HDR
<1> DEFINE n == Len(msgs)
           l == LensOf(msgs)
           y == x.len + HDR
           k == Append(msgs, x)
<1>2. n \in Nat /\ DOMAIN msgs = 1 .. n /\ \A i \in 1 .. n : msgs[i] \in Msg
  OBVIOUS
<1>3. k \in Seq(Msg) /\ Len(k) = n + 1 /\ k[n + 1] = x /\ \A i \in 1 .. n : k[i] = msgs[i]
  OBVIOUS
<1>4. l = [i \in 1 .. n |-> msgs[i].len + HDR]
  BY <1>2 DEF LensOf
<1> HIDE DEF n
<1>5. l \in Seq(Nat) /\ Len(l) = n /\ y \in Nat
  <2>1. \A i \in 1 .. n : msgs[i].len + HDR \in Nat
    BY <1>1, <1>2
  <2>2. l \in [1 .. n -> Nat]
    BY <1>4, <2>1
  <2> HIDE DEF l
  <2> QED
    BY <1>1, <1>2, <2>2
<1>6. LensOf(k) = [i \in 1 .. n + 1 |-> k[i].len + HDR]
  <2>1. DOMAIN k = 1 .. n + 1
    BY <1>3
  <2> QED
    BY <2>1 DEF LensOf
<1>7. \A i \in 1 .. n : l[i] = msgs[i].len + HDR
  BY <1>4
<1>8. k[n + 1].len + HDR = y
  BY <1>3
<1> HIDE DEF k, l, y
<1>9. LensOf(k) \in Seq(Nat) /\ Len(LensOf(k)) = n + 1
  <2>1. \A i \in 1 .. n + 1 : k[i].len + HDR \in Nat
    BY <1>1, <1>2, <1>3
  <2> DEFINE h == LensOf(k)
  <2>2. h \in [1 .. n + 1 -> Nat]
    BY <1>6, <2>1
  <2> HIDE DEF h
  <2>3. h \in Seq(Nat) /\ Len(h) = n + 1
    BY <1>2, <2>2
  <2> QED
    BY <2>3 DEF h
<1>10. \A i \in 1 .. n + 1 : LensOf(k)[i] = Append(l, y)[i]
  <2>1. \A i \in 1 .. n : Append(l, y)[i] = l[i]
    BY <1>5
  <2>2. Append(l, y)[n + 1] = y
    BY <1>5
  <2>3. \A i \in 1 .. n + 1 : i \in 1 .. n \/ i = n + 1
    BY <1>2
  <2>4. ASSUME NEW i \in 1 .. n + 1 PROVE LensOf(k)[i] = Append(l, y)[i]
    <3>1. LensOf(k)[i] = k[i].len + HDR
      BY <1>6
    <3>2. CASE i \in 1 .. n
      BY <1>3, <1>7, <2>1, <3>1, <3>2
    <3>3. CASE i = n + 1
      BY <1>8, <2>2, <3>1, <3>3
    <3> QED
      BY <2>3, <3>2, <3>3
  <2> QED
    BY <2>4
<1>11. LensOf(k) = Append(l, y)
  <2>1. Append(l, y) \in Seq(Nat) /\ Len(Append(l, y)) = n + 1
    BY <1>5
  <2> QED
    BY <1>9, <1>10, <2>1, SeqEqual
<1> QED
  BY <1>5, <1>11 DEF k, l, y

LEMMA ReleasedSized ==
    ASSUME NEW c \in Classes
    PROVE  /\ Released(c).size = Total(LensOf(Released(c).msgs))
           /\ Released(c).size + Released(c).remain = c /\ Released(c).size <= c
<1>1. LensOf(<<>>) = <<>>
  BY DEF LensOf
<1>2. Released(c).msgs = <<>> /\ Released(c).size = 0 /\ Released(c).remain = c
  BY DEF Released
<1>3. 0 + c = c /\ 0 <= c
  BY ClassesAssumption
<1> QED
  BY <1>1, <1>2, <1>3, TotalEmpty

\* A message is counted, and so is the room it takes if there is as much.
LEMMA GainedSized ==
    ASSUME TypeInv, NEW p \in Packets, NEW s \in Sockets, NEW len \in Lens, Gains(p, s, len),
           mem[p].size = Total(LensOf(mem[p].msgs)), mem[p].size + mem[p].remain = p[1]
    PROVE  /\ mem'[p].size = Total(LensOf(mem'[p].msgs))
           /\ mem'[p].size = mem[p].size + (len + HDR)
           /\ len + HDR <= mem[p].remain =>
                mem'[p].size + mem'[p].remain = p[1] /\ mem'[p].size <= p[1]
<1> DEFINE x == Message(s, len)
<1>1. /\ mem[p].msgs \in Seq(Msg) /\ x \in Msg /\ x.len = len
      /\ mem[p].size \in Nat /\ mem[p].remain \in 0 .. Wrap - 1
  BY TypeParts, MessageType DEF PacketType, Message
<1> HIDE DEF x
<1>2. LensOf(mem'[p].msgs) = Append(LensOf(mem[p].msgs), len + HDR)
  BY <1>1, LensOfAppend DEF Gains, x
<1>3. LensOf(mem[p].msgs) \in Seq(Nat) /\ len + HDR \in Nat
  BY <1>1, LensOfAppend
<1>4. Total(LensOf(mem'[p].msgs)) = Total(LensOf(mem[p].msgs)) + (len + HDR)
  BY <1>2, <1>3, TotalAppend
<1>5. mem'[p].size = mem[p].size + (len + HDR)
  BY DEF Gains
<1>6. PICK a \in Nat, b \in 0 .. Wrap - 1, d \in Nat :
        a = mem[p].size /\ b = mem[p].remain /\ d = len + HDR
  BY <1>1, <1>3
<1>7. ASSUME d <= b
      PROVE  mem'[p].size + mem'[p].remain = p[1] /\ mem'[p].size <= p[1]
  <2>1. b - d \in 0 .. Wrap - 1
    BY <1>7, WrapAssumption
  <2>2. mem'[p].remain = (b - d) % Wrap
    BY <1>6 DEF Gains
  <2>3. \A y \in 0 .. Wrap - 1 : y % Wrap = y
    BY WrapAssumption
  <2>4. mem'[p].remain = b - d
    BY <2>1, <2>2, <2>3
  <2>5. (a + d) + (b - d) = a + b /\ a + d <= a + b
    BY <1>7, WrapAssumption
  <2>6. mem'[p].size = a + d /\ p[1] = a + b
    BY <1>5, <1>6
  <2> QED
    BY <2>4, <2>5, <2>6
<1> QED
  BY <1>4, <1>5, <1>6, <1>7

LEMMA FillingMoves ==
    ASSUME TypeInv, [Next]_vars, NEW t \in Sockets
    PROVE  \/ filling'[t] = filling[t] \/ filling'[t] = Nil
           \/ \E m \in Messages :
                /\ Fitting(m[1]) # {} /\ filling'[t].len = m[1]
                /\ filling'[t].packet[1] = ClassOf(m[1])
<1>1. filling \in [Sockets -> FillingType \cup {Nil}]
  BY TypeParts
<1>2. ASSUME NEW s \in Sockets, SendFirst(s) \/ SendQueued(s)
      PROVE  filling' = [filling EXCEPT ![s] = Nil]
  BY <1>2 DEF SendFirst, SendQueued
<1>3. ASSUME NEW s \in Sockets, NEW m \in Messages,
             SendAppend(s, m[1], m[2]) \/ SendAllocFull(s, m[1], m[2]) \/ SendTooLong(s, m[1], m[2])
      PROVE  filling' = filling
  BY <1>3 DEF SendAppend, SendAllocFull, SendTooLong
<1>4. ASSUME NEW s \in Sockets, NEW m \in Messages, SendAlloc(s, m[1], m[2])
      PROVE  /\ \A u \in Sockets : u # s => filling'[u] = filling[u]
             /\ Fitting(m[1]) # {} /\ filling'[s].len = m[1]
             /\ filling'[s].packet[1] = ClassOf(m[1])
  <2> DEFINE p == <<ClassOf(m[1]), used[ClassOf(m[1])]>>
             f == [packet |-> p, len |-> m[1], imm |-> m[2]]
  <2>1. filling' = [filling EXCEPT ![s] = f] /\ Fitting(m[1]) # {}
    BY <1>4 DEF SendAlloc
  <2>2. f.len = m[1] /\ f.packet[1] = ClassOf(m[1])
    OBVIOUS
  <2> HIDE DEF f
  <2> QED
    BY <1>1, <2>1, <2>2
<1>5. ASSUME NEW s \in Sockets, OnWriteCallback(s) \/ Kernel(s) PROVE filling' = filling
  BY <1>5 DEF OnWriteCallback, WriteCallback, FreePacket, Kernel, Transmit, BreakConnection, FailPosted
<1>6. CASE UNCHANGED vars
  BY <1>6 DEF vars
<1>7. ASSUME NEW s \in Sockets, Send(s)
      PROVE  \/ filling' = filling \/ filling' = [filling EXCEPT ![s] = Nil]
             \/ \E m \in Messages : SendAlloc(s, m[1], m[2])
  BY <1>2, <1>3, <1>7 DEF Send
<1> QED
  BY <1>1, <1>4, <1>5, <1>6, <1>7 DEF Next

LEMMA SizesInit == Init => SizesInv
<1> SUFFICES ASSUME Init PROVE SizesInv
  OBVIOUS
<1>1. \A p \in Packets : mem[p] = Released(p[1]) /\ p[1] \in Classes
  BY PacketParts DEF Init
<1>2. \A s \in Sockets : filling[s] = Nil
  BY DEF Init
<1> QED
  BY <1>1, <1>2, ReleasedSized DEF SizesInv, Sized

LEMMA SizesStep ==
    ASSUME Sound, TypeInv, InFlightInv, NEW q \in Queues, QueueInv(q), SizesInv, [Next]_vars
    PROVE  SizesInv'
<1>1. ASSUME NEW p \in Packets PROVE Sized(p)'
  <2>1. /\ mem[p].size = Total(LensOf(mem[p].msgs)) /\ mem[p].size + mem[p].remain = p[1]
        /\ mem[p].size <= p[1]
    BY DEF SizesInv, Sized, Sound
  <2>2. CASE SameContent(p)
    BY <2>1, <2>2 DEF SameContent, Sized
  <2>3. CASE mem'[p] = Released(p[1])
    BY <2>3, ReleasedSized, PacketParts DEF Sized
  <2>4. ASSUME NEW s \in Sockets, NEW len \in Lens, Gains(p, s, len),
               \/ p = lastPacket[s] /\ ~mem[p].sending /\ len + HDR <= mem[p].remain
               \/ filling[s] # Nil /\ p = filling[s].packet /\ len = filling[s].len
        PROVE  Sized(p)'
    <3>1. /\ mem'[p].size = Total(LensOf(mem'[p].msgs))
          /\ mem'[p].size = mem[p].size + (len + HDR)
          /\ len + HDR <= mem[p].remain =>
               mem'[p].size + mem'[p].remain = p[1] /\ mem'[p].size <= p[1]
      BY <2>1, <2>4, GainedSized
    <3>2. CASE len + HDR <= mem[p].remain
      BY <3>1, <3>2 DEF Sized
    <3>3. CASE /\ filling[s] # Nil /\ p = filling[s].packet /\ len = filling[s].len
               /\ ~(len + HDR <= mem[p].remain)
      <4>1. mem[p] = Released(p[1])
        BY <3>3 DEF QueueInv, SocketInv, Outside
      <4>2. mem[p].remain = p[1] /\ mem[p].msgs = <<>> /\ mem[p].size = 0
        BY <4>1 DEF Released
      <4>3. len <= p[1] /\ len \in Nat /\ p[1] \in Nat
        BY <3>3, LensAreNat, PacketParts, ClassesAssumption DEF SizesInv
      <4>4. mem'[p].size = len + HDR
        BY <3>1, <4>2, <4>3 DEF HDR
      <4>5. mem'[p].size <= p[1] + HDR /\ ~(mem'[p].size <= p[1])
        BY <3>3, <4>2, <4>3, <4>4 DEF HDR
      <4>6. Len(mem'[p].msgs) = 1
        <5>1. mem'[p].msgs = Append(<<>>, Message(s, len))
          BY <2>4, <4>2 DEF Gains
        <5> QED
          BY <5>1
      <4> QED
        BY <3>1, <4>5, <4>6 DEF Sized
    <3> QED
      BY <2>4, <3>2, <3>3
  <2>5. ContentChange(q, p)
    BY ContentStep
  <2> QED
    BY <2>2, <2>3, <2>4, <2>5 DEF ContentChange
<1>2. ASSUME NEW t \in Sockets, filling'[t] # Nil
      PROVE  filling'[t].len <= filling'[t].packet[1]
  <2>1. CASE filling'[t] = filling[t]
    BY <1>2, <2>1 DEF SizesInv
  <2>2. ASSUME NEW m \in Messages, Fitting(m[1]) # {}, filling'[t].len = m[1],
               filling'[t].packet[1] = ClassOf(m[1])
        PROVE  filling'[t].len <= filling'[t].packet[1]
    BY <2>2, ClassOfFits DEF Fitting
  <2> QED
    BY <1>2, <2>1, <2>2, FillingMoves
<1> QED
  BY <1>1, <1>2 DEF SizesInv

\* What the queues look like through Chain.
LEMMA QueueShape ==
    ASSUME TypeInv, NEW q \in Queues, QueueInv(q)
    PROVE  /\ \A s \in Sockets :
                /\ Chain(s) = q[s] /\ IsInjective(Chain(s))
                /\ lastPacket[s] = IF Chain(s) = <<>> THEN Nil ELSE Last(Chain(s))
                /\ \A i \in DOMAIN Chain(s) : mem[Chain(s)[i]].sending <=> i = 1
                /\ freeing[s] \notin ToSet(Chain(s))
                /\ filling[s] # Nil => filling[s].packet \notin ToSet(Chain(s))
           /\ \A s, t \in Sockets : s # t => Held(s) \cap Held(t) = {}
<1>1. ASSUME NEW s \in Sockets
      PROVE  /\ Chain(s) = q[s] /\ IsInjective(Chain(s))
             /\ lastPacket[s] = IF Chain(s) = <<>> THEN Nil ELSE Last(Chain(s))
             /\ \A i \in DOMAIN Chain(s) : mem[Chain(s)[i]].sending <=> i = 1
             /\ freeing[s] \notin ToSet(Chain(s))
             /\ filling[s] # Nil => filling[s].packet \notin ToSet(Chain(s))
             /\ \A p : p \in Held(s) => p \in Packets /\ Uses(s, q[s], p)
  <2> DEFINE k == q[s]
  <2>1. k \in Seq(Packets) /\ SocketInv(s, k) /\ Listed(s, k)
    BY DEF Queues, QueueInv, SocketInv
  <2>2. Chain(s) = k
    BY <2>1, ChainIs
  <2>3. DOMAIN k = 1 .. Len(k) /\ ToSet(k) = {k[i] : i \in 1 .. Len(k)}
    BY <2>1 DEF ToSet
  <2>4. \A i \in 1 .. Len(k) : k[i] # Nil
    BY <2>1, PacketParts
  <2>5. \A p : p \in Held(s) => p \in Packets /\ Uses(s, k, p)
    BY <2>1, HeldIs
  <2> HIDE DEF k
  <2>6. IsInjective(k)
    BY <2>1, <2>3 DEF IsInjective, Listed
  <2>7. lastPacket[s] = IF k = <<>> THEN Nil ELSE Last(k)
    BY <2>1 DEF Listed, Last
  <2>8. \A i \in DOMAIN k : mem[k[i]].sending <=> i = 1
    BY <2>1, <2>3 DEF Listed
  <2>9. /\ freeing[s] \notin ToSet(k)
        /\ filling[s] # Nil => filling[s].packet \notin ToSet(k)
    BY <2>1, <2>3, <2>4 DEF SocketInv, Outside
  <2> QED
    BY <2>2, <2>5, <2>6, <2>7, <2>8, <2>9 DEF k
<1>2. \A s, t \in Sockets : s # t => Held(s) \cap Held(t) = {}
  BY <1>1 DEF QueueInv, PoolsInv
<1> QED
  BY <1>1, <1>2

LEMMA AlwaysSized == Spec => []SizesInv
<1>1. QueuesOK /\ SizesInv /\ [Next]_vars => SizesInv'
  <2> SUFFICES ASSUME QueuesOK, SizesInv, [Next]_vars PROVE SizesInv'
    OBVIOUS
  <2>1. CASE UNCHANGED vars
    BY <2>1 DEF vars, SizesInv, Sized
  <2>2. CASE Sound /\ LentOnce
    BY <2>2, SizesStep DEF QueuesOK
  <2> QED
    BY <2>1, <2>2, StepRuns
<1> QED
  BY <1>1, AlwaysQueues, SizesInit, PTL DEF Spec

\* QueuesWellFormed: as long as no packet is lent twice or overflows, each queue is a list
\* without repetition that ends at _lastPacket, no packet is used twice, the first packet
\* of a queue alone is sending, and _size and _remainSize say what packets hold
\* (TCPSocket.cpp:137-208).
THEOREM QueuesStayWellFormed == Spec => []QueuesWellFormed
<1>1. ASSUME TypeInv, InFlightInv, SizesInv, Sound, NEW q \in Queues, QueueInv(q)
      PROVE  QueuesWellFormed
  <2>1. ASSUME NEW s \in Sockets, NEW i \in DOMAIN Chain(s)
        PROVE  LET p == Chain(s)[i]
                   lens == [k \in DOMAIN mem[p].msgs |-> mem[p].msgs[k].len + HDR] IN
               mem[p].size = FoldSeq(+, 0, lens) /\ mem[p].size + mem[p].remain = p[1]
    <3>1. Chain(s)[i] \in Packets
      BY <1>1, QueueShape DEF Queues
    <3>2. Sized(Chain(s)[i]) /\ mem[Chain(s)[i]].size <= Chain(s)[i][1]
      BY <1>1, <3>1 DEF SizesInv, Sound
    <3> QED
      BY <3>2 DEF Sized, Total, LensOf
  <2>2. SizesAgree
    BY <2>1 DEF SizesAgree
  <2>3. NoSharedPacket
    BY <1>1, QueueShape DEF NoSharedPacket
  <2> QED
    BY <1>1, <2>2, <2>3, QueueShape DEF QueuesWellFormed, TypeInv
<1>2. QueuesOK /\ SizesInv => QueuesWellFormed
  <2> SUFFICES ASSUME QueuesOK, SizesInv PROVE QueuesWellFormed
    OBVIOUS
  <2>1. CASE Sound
    BY <1>1, <2>1 DEF QueuesOK, Sound, LentOnce
  <2>2. CASE ~Sound
    BY <2>2 DEF QueuesOK, QueuesWellFormed, TypeInv
  <2> QED
    BY <2>1, <2>2
<1> QED
  BY <1>2, AlwaysQueues, AlwaysSized, PTL

\* OverflowsByHeader: whatever is sent, a packet overflows in one way only, by the header
\* of a single message that its class was chosen for without it (TCPSocket.cpp:185 and
\* :187, PacketSelector.h:35-39).
THEOREM OnlyHeaderOverflows == Spec => []OverflowsByHeader
<1>1. QueuesOK /\ SizesInv => OverflowsByHeader
  <2> SUFFICES ASSUME TypeInv, SizesInv, NEW p \in Packets, mem[p].size > p[1]
               PROVE  mem[p].size <= p[1] + HDR /\ Len(mem[p].msgs) = 1
    BY DEF QueuesOK, OverflowsByHeader
  <2>1. mem[p].size \in Nat /\ p[1] \in Nat /\ Sized(p)
    BY TypeParts, PacketParts, ClassesAssumption DEF PacketType, SizesInv
  <2> QED
    BY <2>1 DEF Sized
<1> QED
  BY <1>1, AlwaysQueues, AlwaysSized, PTL

\* Every variable keeps its type, whatever the messages are, at the step that lends a
\* packet twice or overflows it as well; _remainSize stays an unsigned int.
THEOREM TypeCorrect == Spec => []TypeOK
<1>1. QueuesOK => TypeOK
  BY DEF QueuesOK, TypeInv
<1> QED
  BY <1>1, AlwaysQueues, PTL
=============================================================================
