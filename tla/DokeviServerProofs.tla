------------------------- MODULE DokeviServerProofs -------------------------
(***************************************************************************)
(* For any number of IO threads, accept slots, connections and packets,    *)
(* and whatever peers and kernel do: one thread at a time is in RecvPacket *)
(* of a socket, and _clientSize counts the open connections; until the     *)
(* application sends, a connection is taken down once, through its own     *)
(* handle, no packet is handled after its end, and no accept slot is lost  *)
(* or doubled; and with one IO thread each connection is a ClientSession.  *)
(*                                                                         *)
(* The argument is about the right to handle the data of an object.  It is *)
(* in one place at a time: with the pending AcceptEx, the pending WSARecv, *)
(* a completion of either in the queue, or a thread that runs a handler.   *)
(***************************************************************************)
EXTENDS DokeviServer, FiniteSetTheorems, TLAPS

\* Completion i is about an accept or a receive of x.
Carries(i, x) == cq[i].x = x /\ cq[i].op \in {"ACCEPT", "RECV"}

Holds(t, x, steps) == thread[t].x = x /\ thread[t].pc \in steps

Nowhere(x, steps) ==
    /\ \A i \in DOMAIN cq : ~Carries(i, x)
    /\ \A t \in IOThreads : ~Holds(t, x, steps)

\* The right to handle x is in one place, and does not exist before x does.
Alone(x, steps) ==
    /\ \A i, j \in DOMAIN cq : Carries(i, x) /\ Carries(j, x) => i = j
    /\ \A t, u \in IOThreads : Holds(t, x, steps) /\ Holds(u, x, steps) => t = u
    /\ (\A i \in DOMAIN cq : ~Carries(i, x)) \/ (\A t \in IOThreads : ~Holds(t, x, steps))
    /\ recvOn[x] # 0 => Nowhere(x, steps)
    /\ x \in acceptOn => recvOn[x] = 0 /\ Nowhere(x, steps)
    /\ x > created => x \notin acceptOn /\ recvOn[x] = 0 /\ Nowhere(x, steps)

\* The right to handle x exists; no step but the creation of x creates it.
Live(x, steps) == x \in acceptOn \/ recvOn[x] # 0 \/ ~Nowhere(x, steps)

StaysLive(x, steps) == Live(x, steps)' => Live(x, steps) \/ x > created

\* The steps of a thread that is going to read, or has read, the buffer of x.
Reads == {"associate", "packet", "repost"}

SerialInv == TypeOK /\ \A x \in Ids : Alone(x, Reads)

\* Until the application sends, the right covers the thread that takes x down.
Takes == Reads \cup {"close"}

NoSends == (\A x \in Ids : sendOn[x] = 0) /\ \A i \in DOMAIN cq : cq[i].op # "SEND"

\* An object that was not reset owns the socket behind its handle.
Own(x) ==
    /\ Alone(x, Takes)
    /\ recvOn[x] \in {0, x}
    /\ Live(x, Takes) => resets[x] = 0
    /\ resets[x] \in {0, 1}
    /\ x <= created /\ resets[x] = 0 =>
         handle[x] \in Handles /\ owner[handle[x]] = x /\ conn[x] # "closed"
    /\ x > created => resets[x] = 0 /\ conn[x] = "none"
    /\ calls[x].disconnected > 0 => resets[x] = 1

Closing == \A t \in IOThreads :
    thread[t].pc \in {"arm", "disconnected", "uncount"} => resets[thread[t].x] = 1

\* Slots that were armed and not reset, and threads about to arm one.
Armed == {x \in 1 .. created : resets[x] = 0}
Arming == {t \in IOThreads : thread[t].pc = "arm"}
SlotsKept == toArm + Cardinality(Armed) + Cardinality(Arming) = MaxConn

OwnInv == sent = {} => NoSends /\ (\A x \in Ids : Own(x)) /\ Closing /\ SlotsKept

-----------------------------------------------------------------------------
(* Sequences, least elements, small sets                                   *)

\* The completion queue after a completion was put at its end.
LEMMA AppendAt ==
    ASSUME NEW S, NEW s \in Seq(S), NEW e \in S
    PROVE  /\ Append(s, e) \in Seq(S)
           /\ \A i \in DOMAIN Append(s, e) :
                \/ i \in DOMAIN s /\ Append(s, e)[i] = s[i]
                \/ i \notin DOMAIN s /\ i = Len(s) + 1 /\ Append(s, e)[i] = e
  OBVIOUS

\* The completion queue after its head was taken.
LEMMA TailAt ==
    ASSUME NEW S, NEW s \in Seq(S), s # <<>>
    PROVE  /\ Tail(s) \in Seq(S)
           /\ 1 \in DOMAIN s /\ Head(s) = s[1] /\ Head(s) \in S
           /\ \A i \in DOMAIN Tail(s) :
                i \in Int /\ i + 1 \in DOMAIN s /\ i + 1 # 1 /\ Tail(s)[i] = s[i + 1]
  OBVIOUS

\* The oldest of a set of objects is one of them.
LEMMA MinInSet ==
    ASSUME NEW S, S \subseteq Nat, S # {}
    PROVE  Min(S) \in S
<1>1. PICK x \in S : \A y \in S : ~(<<y, x>> \in OpToRel(<, Nat))
  BY NatLessThanWellFounded, WFMin
<1>2. \A a, b \in Nat : a < b => <<a, b>> \in OpToRel(<, Nat)
  BY Zenon DEF OpToRel
<1>3. \A y \in S : ~(y < x)
  BY <1>1, <1>2, Zenon
<1>4. \A y \in S : x <= y
  BY <1>3
<1> QED
  BY <1>4 DEF Min

\* A set without two elements.
LEMMA AtMostOne ==
    ASSUME NEW S, \A a, b \in S : a = b
    PROVE  /\ IsFiniteSet(S)
           /\ S = {} => Cardinality(S) = 0
           /\ S # {} => Cardinality(S) = 1
<1>1. CASE S = {}
  BY <1>1, FS_EmptySet
<1>2. CASE S # {}
  <2>1. PICK a \in S : S = {a}
    BY <1>2
  <2> QED
    BY <2>1, FS_Singleton
<1> QED
  BY <1>1, <1>2

-----------------------------------------------------------------------------
(* How the right to handle x moves                                         *)

\* It stays where it is, or is dropped.
LEMMA AloneStays ==
    ASSUME NEW x \in Ids, NEW steps, Alone(x, steps), cq' = cq,
           \A t \in IOThreads : Holds(t, x, steps)' => Holds(t, x, steps),
           recvOn'[x] # 0 => recvOn[x] # 0,
           x \in acceptOn' => x \in acceptOn,
           x > created' => x > created
    PROVE  Alone(x, steps)' /\ StaysLive(x, steps)
  BY DEF Alone, StaysLive, Live, Nowhere, Carries

\* ReadyAcceptEx: a new object gets it.
LEMMA AloneArmed ==
    ASSUME NEW x \in Ids, NEW steps, Alone(x, steps), TypeOK, cq' = cq, recvOn' = recvOn,
           \A t \in IOThreads : Holds(t, x, steps)' => Holds(t, x, steps),
           ReadyAcceptEx
    PROVE  Alone(x, steps)' /\ StaysLive(x, steps)
  BY DEF Alone, StaysLive, Live, Nowhere, Carries, ReadyAcceptEx, TypeOK, Ids

\* GetQueuedCompletionStatus: it goes from the head of the queue to the thread.
LEMMA AloneTaken ==
    ASSUME NEW x \in Ids, NEW steps, Alone(x, steps), TypeOK, "get" \notin steps,
           NEW t \in IOThreads, NEW pc, Take(t, pc),
           pc \in steps => Head(cq).op \in {"ACCEPT", "RECV"}
    PROVE  Alone(x, steps)' /\ StaysLive(x, steps)
<1>1. cq # <<>> /\ cq' = Tail(cq) /\ cq \in Seq(Completion) /\ thread[t] = Idle
  BY DEF Take, TypeOK
<1>2. /\ 1 \in DOMAIN cq /\ Head(cq) = cq[1] /\ Head(cq) \in Completion
      /\ \A i \in DOMAIN cq' : i \in Int /\ i + 1 \in DOMAIN cq /\ i + 1 # 1 /\ cq'[i] = cq[i + 1]
  BY <1>1, TailAt, Zenon
<1>3. UNCHANGED <<recvOn, acceptOn, created>>
  BY DEF Take, sockets, ops
<1>4. /\ ~Holds(t, x, steps)
      /\ \A u \in IOThreads : Holds(u, x, steps)' =>
            \/ u # t /\ Holds(u, x, steps)
            \/ u = t /\ Carries(1, x)
  BY <1>1, <1>2 DEF Take, TypeOK, Holds, Idle, Carries
<1>5. \A i \in DOMAIN cq' : Carries(i, x)' => i \in Int /\ i + 1 \in DOMAIN cq /\ i + 1 # 1 /\ Carries(i + 1, x)
  BY <1>2 DEF Carries
<1> QED
  BY <1>2, <1>3, <1>4, <1>5 DEF Alone, StaysLive, Live, Nowhere

\* WSARecv: it goes from the thread to the pending receive.
LEMMA AlonePosted ==
    ASSUME NEW x \in Ids, NEW steps, Alone(x, steps), TypeOK,
           NEW t \in IOThreads, NEW y \in Ids, Holds(t, y, steps),
           UNCHANGED <<cq, acceptOn, created>>,
           recvOn' = recvOn \/ PostRecv(y),
           \A z \in Ids : ~Holds(t, z, steps)',
           \A u \in IOThreads \ {t} : thread'[u] = thread[u]
    PROVE  Alone(x, steps)' /\ StaysLive(x, steps)
<1>1. /\ x # y => recvOn'[x] = recvOn[x]
  BY DEF PostRecv, TypeOK
<1>2. \A u \in IOThreads : Holds(u, x, steps)' => u # t /\ Holds(u, x, steps)
  BY DEF Holds
<1> QED
  BY <1>1, <1>2 DEF Alone, StaysLive, Live, Nowhere, Carries

\* An accept or a receive completes: it goes to the end of the queue.
LEMMA AloneCompleted ==
    ASSUME NEW x \in Ids, NEW steps, Alone(x, steps), TypeOK,
           NEW op \in {"ACCEPT", "RECV", "SEND"}, NEW y \in Ids,
           NEW res \in {"ok", "zero", "err64", "other"}, Complete(op, y, res),
           UNCHANGED <<thread, created>>,
           op = "ACCEPT" => y \in acceptOn /\ acceptOn' = acceptOn \ {y} /\ recvOn' = recvOn,
           op = "RECV" => /\ recvOn[y] # 0 /\ acceptOn' = acceptOn
                          /\ recvOn' = [recvOn EXCEPT ![y] = 0],
           op = "SEND" => acceptOn' = acceptOn /\ recvOn' = recvOn
    PROVE  Alone(x, steps)' /\ StaysLive(x, steps)
<1> DEFINE c == [op |-> op, x |-> y, res |-> res]
<1>1. cq \in Seq(Completion) /\ c \in Completion /\ cq' = Append(cq, c)
  BY DEF TypeOK, Completion, Complete
<1>2. \A i \in DOMAIN cq' : \/ i \in DOMAIN cq /\ cq'[i] = cq[i]
                            \/ i \notin DOMAIN cq /\ i = Len(cq) + 1 /\ cq'[i] = c
  <2> HIDE DEF c
  <2> QED
    BY <1>1, AppendAt
<1>3. \A i \in DOMAIN cq' : Carries(i, x)' =>
        \/ i \in DOMAIN cq /\ Carries(i, x)
        \/ i = Len(cq) + 1 /\ x = y /\ op \in {"ACCEPT", "RECV"}
  BY <1>2 DEF Carries
<1>4. recvOn'[x] # 0 => recvOn[x] # 0
  BY DEF TypeOK
<1>5. \A t \in IOThreads : Holds(t, x, steps)' <=> Holds(t, x, steps)
  BY DEF Holds
<1>6. CASE op \in {"ACCEPT", "RECV"} /\ x = y
  <2>1. (x \in acceptOn \/ recvOn[x] # 0) /\ recvOn'[x] = 0 /\ x \notin acceptOn'
    BY <1>6 DEF TypeOK, Alone
  <2>2. Nowhere(x, steps)
    BY <2>1 DEF Alone
  <2>3. ~(x > created)
    BY <2>1 DEF Alone
  <2> QED
    BY <1>3, <1>5, <2>1, <2>2, <2>3 DEF Alone, StaysLive, Live, Nowhere
<1>7. CASE ~(op \in {"ACCEPT", "RECV"} /\ x = y)
  <2>1. x \in acceptOn' => x \in acceptOn
    BY <1>7
  <2> QED
    BY <1>3, <1>4, <1>5, <1>7, <2>1 DEF Alone, StaysLive, Live, Nowhere
<1> QED
  BY <1>6, <1>7

-----------------------------------------------------------------------------
(* Types                                                                   *)

LEMMA TypeInit == Init => TypeOK
  BY BoundsAssumption, SizesAssumption
  DEF Init, TypeOK, Idle, Steps, Completion, Ids, Handles, IOThreads

LEMMA ArmedType ==
    ASSUME TypeOK, ReadyAcceptEx
    PROVE  /\ created' = created + 1 /\ created' \in Ids /\ created' \in 0 .. MaxSockets
           /\ handle' \in [Ids -> Handles \cup {0}] /\ owner' \in [Handles -> Ids \cup {0}]
           /\ acceptOn' \subseteq Ids /\ conn' = conn
<1>1. created' = created + 1 /\ created' \in Ids /\ created' \in 0 .. MaxSockets
  BY BoundsAssumption DEF ReadyAcceptEx, TypeOK, Ids
<1> QED
  BY <1>1 DEF ReadyAcceptEx, TypeOK

LEMMA CompleteType ==
    ASSUME TypeOK, NEW op \in {"ACCEPT", "RECV", "SEND"}, NEW x \in Ids,
           NEW res \in {"ok", "zero", "err64", "other"}, Complete(op, x, res)
    PROVE  cq' \in Seq(Completion)
  BY DEF Complete, Completion, TypeOK

LEMMA GotoType ==
    ASSUME TypeOK, NEW t \in IOThreads, NEW pc \in Steps, NEW x \in Ids \cup {0}, Goto(t, pc, x),
           (pc = "get") <=> (x = 0)
    PROVE  /\ thread' \in [IOThreads -> [pc : Steps, x : Ids \cup {0}]]
           /\ \A u \in IOThreads : (thread'[u].pc = "get") <=> (thread'[u].x = 0)
  BY DEF Goto, TypeOK

LEMMA ReachedType == TypeOK => \A x \in Ids : Reached(x) \in Ids \cup {0}
  BY DEF TypeOK, Reached

\* The object of a busy thread.
LEMMA BusyThread ==
    ASSUME TypeOK, NEW t \in IOThreads, thread[t].pc # "get"
    PROVE  thread[t].x \in Ids /\ thread[t].x # 0
  BY DEF TypeOK

LEMMA PostRecvType ==
    ASSUME TypeOK, NEW x \in Ids, PostRecv(x)
    PROVE  recvOn' \in [Ids -> Ids \cup {0}]
  BY ReachedType DEF PostRecv, TypeOK

LEMMA ListeningType ==
    ASSUME TypeOK
    PROVE  Listening \subseteq Nat /\ Listening \subseteq acceptOn /\ Listening \subseteq Ids
<1>1. Ids \subseteq Nat
  BY BoundsAssumption DEF Ids
<1>2. Listening \subseteq acceptOn
  BY DEF Listening
<1>3. acceptOn \subseteq Ids
  BY DEF TypeOK
<1> QED
  BY <1>1, <1>2, <1>3

LEMMA CallType ==
    ASSUME TypeOK, NEW x \in Ids,
           \/ calls' = [calls EXCEPT ![x].connected = @ + 1]
           \/ calls' = [calls EXCEPT ![x].packet = @ + 1]
           \/ calls' = [calls EXCEPT ![x].disconnected = @ + 1]
    PROVE  calls' \in [Ids -> [connected : Nat, packet : Nat, disconnected : Nat]]
<1>1. calls \in [Ids -> [connected : Nat, packet : Nat, disconnected : Nat]]
  BY DEF TypeOK
<1> QED
  BY <1>1

LEMMA TakeType ==
    ASSUME TypeOK, NEW t \in IOThreads, NEW pc \in Steps, Take(t, pc)
    PROVE  TypeOK'
<1> USE DEF system, sockets, ops, history
<1>1. /\ Tail(cq) \in Seq(Completion) /\ Head(cq) \in Completion
  BY TailAt, Zenon DEF Take, TypeOK
<1>2. Head(cq).x \in Ids /\ Head(cq).x # 0
  BY <1>1 DEF Completion, Ids
<1>3. /\ thread' \in [IOThreads -> [pc : Steps, x : Ids \cup {0}]]
      /\ \A u \in IOThreads : (thread'[u].pc = "get") <=> (thread'[u].x = 0)
  BY <1>2 DEF Take, TypeOK
<1> QED
  BY <1>1, <1>3 DEF Take, TypeOK

LEMMA TypeStep ==
    ASSUME TypeOK, [Next]_vars
    PROVE  TypeOK'
<1> USE DEF system, sockets, ops, history
<1>0. 0 \notin Ids /\ IOThreads \subseteq 0 .. MaxThreads
  BY BoundsAssumption DEF Ids, IOThreads
<1>1. CASE Arm
  <2>1. toArm - 1 \in 0 .. MaxConn
    BY <1>1, BoundsAssumption DEF Arm, TypeOK
  <2> QED
    BY <1>1, <2>1, ArmedType DEF Arm, TypeOK
<1>2. CASE Run
  BY <1>0, <1>2 DEF Run, TypeOK
<1>3. ASSUME NEW t \in IOThreads, GetQueuedCompletionStatus(t) PROVE TypeOK'
  BY <1>3, TakeType DEF GetQueuedCompletionStatus, GetAccept, GetData, GetEnd, GetSent, GetFailed,
       GetIgnored, Steps
<1>4. ASSUME NEW t \in IOThreads, Associate(t) PROVE TypeOK'
  <2>1. thread[t].x \in Ids /\ thread[t].x # 0
    BY <1>4, BusyThread DEF Associate
  <2>2. /\ thread' \in [IOThreads -> [pc : Steps, x : Ids \cup {0}]]
        /\ \A u \in IOThreads : (thread'[u].pc = "get") <=> (thread'[u].x = 0)
    BY <1>4, <2>1, GotoType DEF Associate, Steps
  <2>3. recvOn' \in [Ids -> Ids \cup {0}]
    BY <1>4, <2>1, PostRecvType DEF Associate, TypeOK
  <2> QED
    BY <1>4, <2>2, <2>3 DEF Associate, TypeOK
<1>5. ASSUME NEW t \in IOThreads,
             CallConnected(t) \/ CallPacket(t) \/ CallDisconnected(t)
      PROVE  TypeOK'
  <2>1. thread[t].x \in Ids /\ thread[t].x # 0
    BY <1>5, BusyThread DEF CallConnected, CallPacket, CallDisconnected
  <2>2. /\ thread' \in [IOThreads -> [pc : Steps, x : Ids \cup {0}]]
        /\ \A u \in IOThreads : (thread'[u].pc = "get") <=> (thread'[u].x = 0)
    BY <1>5, <2>1, GotoType DEF CallConnected, CallPacket, CallDisconnected, Steps
  <2>3. calls' \in [Ids -> [connected : Nat, packet : Nat, disconnected : Nat]]
    BY <1>5, <2>1, CallType DEF CallConnected, CallPacket, CallDisconnected, TypeOK
  <2> QED
    BY <1>5, <2>2, <2>3 DEF CallConnected, CallPacket, CallDisconnected, TypeOK
<1>6. ASSUME NEW t \in IOThreads, CountIn(t) \/ CountOut(t) PROVE TypeOK'
  <2>1. /\ thread' \in [IOThreads -> [pc : Steps, x : Ids \cup {0}]]
        /\ \A u \in IOThreads : (thread'[u].pc = "get") <=> (thread'[u].x = 0)
    BY <1>6, GotoType DEF CountIn, CountOut, Steps
  <2> QED
    BY <1>6, <2>1, SMTT(60) DEF CountIn, CountOut, TypeOK
<1>7. ASSUME NEW t \in IOThreads, Repost(t) PROVE TypeOK'
  <2>1. thread[t].x \in Ids
    BY <1>7, BusyThread DEF Repost
  <2>2. /\ thread' \in [IOThreads -> [pc : Steps, x : Ids \cup {0}]]
        /\ \A u \in IOThreads : (thread'[u].pc = "get") <=> (thread'[u].x = 0)
    BY <1>7, GotoType DEF Repost, Steps
  <2> QED
    BY <1>7, <2>1, <2>2, PostRecvType DEF Repost, TypeOK
<1>8. ASSUME NEW t \in IOThreads, Close(t) PROVE TypeOK'
  <2>1. thread[t].x \in Ids /\ thread[t].x # 0
    BY <1>8, BusyThread DEF Close
  <2>2. /\ thread' \in [IOThreads -> [pc : Steps, x : Ids \cup {0}]]
        /\ \A u \in IOThreads : (thread'[u].pc = "get") <=> (thread'[u].x = 0)
    BY <1>8, <2>1, GotoType DEF Close, Steps
  <2>3. /\ resets' \in [Ids -> Nat]
        /\ conn' \in [Ids -> {"none", "up", "fin", "rst", "closed"}]
        /\ owner' \in [Handles -> Ids \cup {0}]
    <3>1. /\ resets \in [Ids -> Nat] /\ owner \in [Handles -> Ids \cup {0}]
          /\ conn \in [Ids -> {"none", "up", "fin", "rst", "closed"}]
          /\ Reached(thread[t].x) \in Ids \cup {0}
      BY <2>1, ReachedType DEF TypeOK
    <3>2. resets' = [resets EXCEPT ![thread[t].x] = @ + 1]
      BY <1>8 DEF Close
    <3>3. conn' = conn \/ conn' = [conn EXCEPT ![Reached(thread[t].x)] = "closed"]
      BY <1>8 DEF Close
    <3>4. owner' = owner \/ owner' = [owner EXCEPT ![handle[thread[t].x]] = 0]
      BY <1>8 DEF Close
    <3>5. resets' \in [Ids -> Nat]
      BY <2>1, <3>1, <3>2
    <3>6. conn' \in [Ids -> {"none", "up", "fin", "rst", "closed"}]
      BY <3>1, <3>3
    <3>7. owner' \in [Handles -> Ids \cup {0}]
      BY <3>1, <3>4
    <3> QED
      BY <3>5, <3>6, <3>7
  <2> QED
    BY <1>8, <2>2, <2>3 DEF Close, TypeOK
<1>9. ASSUME NEW t \in IOThreads, Rearm(t) PROVE TypeOK'
  <2>1. thread[t].x \in Ids /\ thread[t].x # 0
    BY <1>9, BusyThread DEF Rearm
  <2>2. /\ thread' \in [IOThreads -> [pc : Steps, x : Ids \cup {0}]]
        /\ \A u \in IOThreads : (thread'[u].pc = "get") <=> (thread'[u].x = 0)
    BY <1>9, <2>1, GotoType DEF Rearm, Steps
  <2> QED
    BY <1>9, <2>2, ArmedType DEF Rearm, TypeOK
<1>10. ASSUME NEW x \in Ids, AppSend(x) PROVE TypeOK'
  BY <1>10, ReachedType DEF AppSend, TypeOK
<1>11. CASE ClientConnects \/ ClientAborts
  <2>1. PICK x \in Ids, res \in {"ok", "err64"} : Complete("ACCEPT", x, res)
    <3>1. Listening \subseteq Nat /\ Listening \subseteq Ids
      BY ListeningType
    <3> QED
      BY <1>11, <3>1, MinInSet DEF ClientConnects, ClientAborts
  <2>2. cq' \in Seq(Completion)
    BY <2>1, CompleteType
  <2>3. connects' \in 0 .. MaxConnects
    BY <1>11, BoundsAssumption DEF ClientConnects, ClientAborts, TypeOK
  <2> QED
    BY <1>11, <2>2, <2>3 DEF ClientConnects, ClientAborts, TypeOK
<1>12. ASSUME NEW x \in Ids, AcceptCancelled(x) PROVE TypeOK'
  BY <1>12, CompleteType DEF AcceptCancelled, TypeOK
<1>13. ASSUME NEW x \in Ids, PeerCloses(x) \/ PeerResets(x) PROVE TypeOK'
  BY <1>13 DEF PeerCloses, PeerResets, TypeOK
<1>14. ASSUME NEW x \in Ids, NEW res \in {"ok", "zero", "err64", "other"}, RecvCompletes(x, res)
       PROVE  TypeOK'
  BY <1>14, CompleteType DEF RecvCompletes, TypeOK
<1>15. ASSUME NEW x \in Ids, DataArrives(x) \/ EofArrives(x) \/ RecvFails(x) PROVE TypeOK'
  BY <1>14, <1>15, ErrorsAssumption DEF DataArrives, EofArrives, RecvFails
<1>16. ASSUME NEW x \in Ids, SendCompletes(x) PROVE TypeOK'
  <2>1. PICK res \in ResetErrors \cup {"ok", "other"} :
          /\ sendOn' = [sendOn EXCEPT ![x] = 0] /\ Complete("SEND", x, res)
          /\ UNCHANGED <<system, sockets, recvOn, thread, clientSize, history>>
    BY <1>16 DEF SendCompletes
  <2>2. cq' \in Seq(Completion)
    BY <2>1, CompleteType, ErrorsAssumption
  <2> QED
    BY <2>1, <2>2 DEF TypeOK
<1>17. CASE UNCHANGED vars
  BY <1>17 DEF vars, TypeOK
<1> QED
  BY <1>1, <1>2, <1>3, <1>4, <1>5, <1>6, <1>7, <1>8, <1>9, <1>10, <1>11, <1>12, <1>13, <1>15, <1>16,
     <1>17 DEF Next, ThreadTask, ConnectHanadler, RecvHandler, DisconnectHandler, Completions

-----------------------------------------------------------------------------
(* Every step of the server                                                *)

\* A thread goes on to its next step.
LEMMA GotoHolds ==
    ASSUME TypeOK, NEW t \in IOThreads, NEW pc, NEW y, Goto(t, pc, y)
    PROVE  /\ thread'[t] = [pc |-> pc, x |-> y]
           /\ \A u \in IOThreads \ {t} : thread'[u] = thread[u]
  BY DEF Goto, TypeOK

\* A thread that goes on to a step outside `steps`, or stays on its object.
LEMMA GotoStays ==
    ASSUME TypeOK, NEW t \in IOThreads, NEW pc, NEW y, Goto(t, pc, y), NEW x \in Ids, NEW steps,
           pc \in steps => thread[t].pc \in steps /\ y = thread[t].x
    PROVE  \A u \in IOThreads : Holds(u, x, steps)' => Holds(u, x, steps)
<1>1. /\ thread'[t] = [pc |-> pc, x |-> y]
      /\ \A u \in IOThreads \ {t} : thread'[u] = thread[u]
  BY GotoHolds
<1>2. thread'[t].pc = pc /\ thread'[t].x = y
  BY <1>1
<1> QED
  BY <1>1, <1>2 DEF Holds

\* The completion at the head of the queue.
LEMMA HeadType ==
    ASSUME TypeOK, cq # <<>>
    PROVE  Head(cq) \in Completion /\ 1 \in DOMAIN cq /\ Head(cq) = cq[1]
  BY TailAt, Zenon DEF TypeOK

LEMMA AloneStep ==
    ASSUME TypeOK, NEW x \in Ids, NEW steps \in {Reads, Takes}, steps = Takes => NoSends,
           Alone(x, steps), [Next]_vars
    PROVE  Alone(x, steps)' /\ StaysLive(x, steps)
<1> USE DEF system, sockets, ops, history
<1>0. /\ {"associate", "packet", "repost"} \subseteq steps
      /\ steps \subseteq {"associate", "packet", "repost", "close"}
      /\ "close" \in steps => NoSends
  BY DEF Reads, Takes
<1>a. ASSUME UNCHANGED thread PROVE \A t \in IOThreads : Holds(t, x, steps)' => Holds(t, x, steps)
  BY <1>a DEF Holds
<1>1. CASE Arm
  BY <1>1, <1>a, AloneArmed DEF Arm
<1>2. CASE Run
  BY <1>2, <1>a, AloneStays DEF Run
<1>3. ASSUME NEW t \in IOThreads, GetQueuedCompletionStatus(t) PROVE Alone(x, steps)' /\ StaysLive(x, steps)
  <2>1. PICK pc : Take(t, pc) /\ (pc \in steps => Head(cq).op \in {"ACCEPT", "RECV"})
    <3>1. cq # <<>>
      BY <1>3 DEF GetQueuedCompletionStatus, GetAccept, GetData, GetEnd, GetSent, GetFailed, GetIgnored,
           Take
    <3>2. NoSends => Head(cq).op \in {"ACCEPT", "RECV"}
      BY <3>1, HeadType DEF NoSends, Completion
    <3> QED
      BY <1>0, <1>3, <3>2 DEF GetQueuedCompletionStatus, GetAccept, GetData, GetEnd, GetSent, GetFailed,
           GetIgnored
  <2> QED
    BY <1>0, <2>1, AloneTaken
<1>4. ASSUME NEW t \in IOThreads, Associate(t) \/ Repost(t) PROVE Alone(x, steps)' /\ StaysLive(x, steps)
  <2>1. thread[t].x \in Ids /\ Holds(t, thread[t].x, steps)
    BY <1>0, <1>4, BusyThread DEF Associate, Repost, Holds
  <2>2. PICK pc, y : Goto(t, pc, y) /\ pc \notin steps
    BY <1>0, <1>4 DEF Associate, Repost
  <2>3. /\ \A z \in Ids : ~Holds(t, z, steps)'
        /\ \A u \in IOThreads \ {t} : thread'[u] = thread[u]
    <3>1. /\ thread'[t] = [pc |-> pc, x |-> y]
          /\ \A u \in IOThreads \ {t} : thread'[u] = thread[u]
      BY <2>2, GotoHolds
    <3>2. thread'[t].pc = pc
      BY <3>1
    <3> QED
      BY <2>2, <3>1, <3>2 DEF Holds
  <2>4. UNCHANGED <<cq, acceptOn, created>> /\ (recvOn' = recvOn \/ PostRecv(thread[t].x))
    BY <1>4 DEF Associate, Repost
  <2> QED
    BY <2>1, <2>3, <2>4, AlonePosted
<1>5. ASSUME NEW t \in IOThreads,
             \/ CallConnected(t) \/ CountIn(t) \/ CallPacket(t) \/ Close(t)
             \/ CallDisconnected(t) \/ CountOut(t)
      PROVE  Alone(x, steps)' /\ StaysLive(x, steps)
  <2>1. PICK pc, y : Goto(t, pc, y) /\ (pc \in steps => thread[t].pc \in steps /\ y = thread[t].x)
    BY <1>0, <1>5 DEF CallConnected, CountIn, CallPacket, Close, CallDisconnected, CountOut
  <2>2. UNCHANGED <<cq, recvOn, acceptOn, created>>
    BY <1>5 DEF CallConnected, CountIn, CallPacket, Close, CallDisconnected, CountOut
  <2> QED
    BY <2>1, <2>2, GotoStays, AloneStays
<1>6. ASSUME NEW t \in IOThreads, Rearm(t) PROVE Alone(x, steps)' /\ StaysLive(x, steps)
  <2>1. "disconnected" \notin steps /\ Goto(t, "disconnected", thread[t].x)
    BY <1>0, <1>6 DEF Rearm
  <2> QED
    BY <1>6, <2>1, GotoStays, AloneArmed DEF Rearm
<1>7. ASSUME NEW y \in Ids, AppSend(y) \/ PeerCloses(y) \/ PeerResets(y) PROVE Alone(x, steps)' /\ StaysLive(x, steps)
  BY <1>7, <1>a, AloneStays DEF AppSend, PeerCloses, PeerResets
<1>8. CASE ClientConnects \/ ClientAborts
  <2>1. PICK y \in Ids, res \in {"ok", "err64"} :
          Complete("ACCEPT", y, res) /\ y \in acceptOn /\ acceptOn' = acceptOn \ {y}
    BY <1>8, ListeningType, MinInSet DEF ClientConnects, ClientAborts
  <2> QED
    BY <1>8, <2>1, AloneCompleted DEF ClientConnects, ClientAborts
<1>9. ASSUME NEW y \in Ids, AcceptCancelled(y) PROVE Alone(x, steps)' /\ StaysLive(x, steps)
  BY <1>9, AloneCompleted DEF AcceptCancelled
<1>10. ASSUME NEW y \in Ids, DataArrives(y) \/ EofArrives(y) \/ RecvFails(y) PROVE Alone(x, steps)' /\ StaysLive(x, steps)
  <2>1. PICK res \in {"ok", "zero", "err64", "other"} : RecvCompletes(y, res)
    BY <1>10, ErrorsAssumption DEF DataArrives, EofArrives, RecvFails
  <2> QED
    BY <2>1, AloneCompleted DEF RecvCompletes
<1>11. ASSUME NEW y \in Ids, SendCompletes(y) PROVE Alone(x, steps)' /\ StaysLive(x, steps)
  <2>1. PICK res \in {"ok", "zero", "err64", "other"} :
          Complete("SEND", y, res) /\ UNCHANGED <<thread, created, acceptOn, recvOn>>
    BY <1>11, ErrorsAssumption DEF SendCompletes
  <2> QED
    BY <2>1, AloneCompleted
<1>12. CASE UNCHANGED vars
  BY <1>12, <1>a, AloneStays DEF vars
<1> QED
  BY <1>1, <1>2, <1>3, <1>4, <1>5, <1>6, <1>7, <1>8, <1>9, <1>10, <1>11, <1>12
  DEF Next, ThreadTask, ConnectHanadler, RecvHandler, DisconnectHandler, Completions

-----------------------------------------------------------------------------
(* One thread at a time reads                                              *)

LEMMA SerialInit == Init => SerialInv
<1> SUFFICES ASSUME Init PROVE SerialInv
  OBVIOUS
<1>1. TypeOK
  BY TypeInit
<1>2. /\ \A x \in Ids : recvOn[x] = 0 /\ x \notin acceptOn
      /\ DOMAIN cq = {} /\ \A t \in IOThreads : thread[t].pc = "get"
  BY DEF Init, Idle
<1> QED
  BY <1>1, <1>2 DEF SerialInv, Alone, Nowhere, Holds, Reads

LEMMA SerialStep == SerialInv /\ [Next]_vars => SerialInv'
  BY TypeStep, AloneStep DEF SerialInv, Reads, Takes

LEMMA SerialImplies == SerialInv => RecvSerial
<1> SUFFICES ASSUME SerialInv, NEW x \in Ids
             PROVE  /\ Cardinality(Waiting("ACCEPT", x)) + Cardinality(Waiting("RECV", x))
                         + Cardinality(At({"associate", "packet", "repost"}, x))
                         + (IF recvOn[x] # 0 THEN 1 ELSE 0) <= 1
                    /\ x \in acceptOn => Waiting("ACCEPT", x) = {} /\ recvOn[x] = 0
  BY DEF SerialInv, RecvSerial
<1> DEFINE A == Waiting("ACCEPT", x)
           R == Waiting("RECV", x)
           T == At({"associate", "packet", "repost"}, x)
<1>1. Alone(x, Reads)
  BY DEF SerialInv
<1>2. /\ \A i \in A \cup R : i \in DOMAIN cq /\ Carries(i, x)
      /\ \A t \in T : t \in IOThreads /\ Holds(t, x, Reads)
      /\ A \cap R = {}
  BY DEF Waiting, At, Carries, Holds, Reads
<1>3. /\ \A a, b \in A : a = b
      /\ \A a, b \in R : a = b
      /\ \A a, b \in T : a = b
      /\ A = {} \/ R = {}
      /\ T = {} \/ (A = {} /\ R = {})
      /\ recvOn[x] # 0 => A = {} /\ R = {} /\ T = {}
      /\ x \in acceptOn => A = {} /\ recvOn[x] = 0
  BY <1>1, <1>2 DEF Alone, Nowhere
<1> HIDE DEF A, R, T
<1>4. /\ Cardinality(A) \in {0, 1} /\ (A = {} => Cardinality(A) = 0)
      /\ Cardinality(R) \in {0, 1} /\ (R = {} => Cardinality(R) = 0)
      /\ Cardinality(T) \in {0, 1} /\ (T = {} => Cardinality(T) = 0)
  BY <1>3, AtMostOne
<1>5. Cardinality(A) + Cardinality(R) + Cardinality(T) + (IF recvOn[x] # 0 THEN 1 ELSE 0) <= 1
  BY <1>3, <1>4
<1> QED
  BY <1>3, <1>5 DEF A, R, T

\* The types of the server's state.
THEOREM TypeCorrect == Spec => []TypeOK
<1>1. TypeOK /\ [Next]_vars => TypeOK'
  BY TypeStep
<1> QED
  BY TypeInit, <1>1, PTL DEF Spec

\* RecvPacket needs no lock: for any IO threads and peers, the pending WSARecv of
\* a socket, its completion and the handler that runs on it are never two
\* (TCPSocket.cpp:210-281).
THEOREM OneReader == Spec => []RecvSerial
  BY SerialInit, SerialStep, SerialImplies, PTL DEF Spec

-----------------------------------------------------------------------------
(* Until the application sends                                             *)

OwnAll == NoSends /\ (\A x \in Ids : Own(x)) /\ Closing /\ SlotsKept

\* A live object reaches its own socket.
LEMMA LiveReaches ==
    ASSUME TypeOK, NEW x \in Ids, Own(x), Live(x, Takes)
    PROVE  resets[x] = 0 /\ x <= created /\ Reached(x) = x /\ handle[x] \in Handles
<1>1. resets[x] = 0 /\ ~(x > created)
  BY DEF Own, Alone, Live
<1>2. x <= created
  BY <1>1 DEF TypeOK, Ids
<1>3. handle[x] \in Handles /\ owner[handle[x]] = x
  BY <1>1, <1>2 DEF Own
<1> QED
  BY <1>1, <1>2, <1>3 DEF Reached, Handles

LEMMA NoSendsStep ==
    ASSUME TypeOK, NoSends, [Next]_vars, sent' = {}
    PROVE  NoSends'
<1> USE DEF system, sockets, ops, history
<1>1. ASSUME UNCHANGED <<sendOn, cq>> PROVE NoSends'
  BY <1>1 DEF NoSends
<1>2. ASSUME NEW op \in {"ACCEPT", "RECV"}, NEW x \in Ids, NEW res \in {"ok", "zero", "err64", "other"},
             Complete(op, x, res), UNCHANGED sendOn
      PROVE  NoSends'
  <2> DEFINE c == [op |-> op, x |-> x, res |-> res]
  <2>1. cq \in Seq(Completion) /\ c \in Completion /\ cq' = Append(cq, c) /\ c.op # "SEND"
    BY <1>2 DEF TypeOK, Completion, Complete
  <2> HIDE DEF c
  <2>2. \A i \in DOMAIN cq' : (i \in DOMAIN cq /\ cq'[i] = cq[i]) \/ cq'[i] = c
    BY <2>1, AppendAt
  <2> QED
    BY <1>2, <2>1, <2>2 DEF NoSends
<1>3. ASSUME NEW t \in IOThreads, GetQueuedCompletionStatus(t) PROVE NoSends'
  <2>1. cq # <<>> /\ cq' = Tail(cq) /\ cq \in Seq(Completion) /\ sendOn' = sendOn
    BY <1>3 DEF GetQueuedCompletionStatus, GetAccept, GetData, GetEnd, GetSent, GetFailed, GetIgnored,
         Take, TypeOK
  <2>2. \A i \in DOMAIN cq' : i + 1 \in DOMAIN cq /\ cq'[i] = cq[i + 1]
    BY <2>1, TailAt, Zenon
  <2> QED
    BY <2>1, <2>2 DEF NoSends
<1>4. CASE ClientConnects \/ ClientAborts
  <2>1. PICK y \in Ids, res \in {"ok", "err64"} : Complete("ACCEPT", y, res)
    BY <1>4, ListeningType, MinInSet DEF ClientConnects, ClientAborts
  <2> QED
    BY <1>2, <1>4, <2>1 DEF ClientConnects, ClientAborts
<1>5. ASSUME NEW y \in Ids, AcceptCancelled(y) PROVE NoSends'
  BY <1>2, <1>5 DEF AcceptCancelled
<1>6. ASSUME NEW y \in Ids, DataArrives(y) \/ EofArrives(y) \/ RecvFails(y) PROVE NoSends'
  BY <1>2, <1>6, ErrorsAssumption DEF DataArrives, EofArrives, RecvFails, RecvCompletes
<1>7. ASSUME NEW y \in Ids, SendCompletes(y) PROVE NoSends'
  BY <1>7 DEF SendCompletes, NoSends
<1>8. ASSUME NEW y \in Ids, AppSend(y) PROVE NoSends'
  BY <1>8 DEF AppSend
<1>9. ASSUME NEW y \in Ids, PeerCloses(y) \/ PeerResets(y) PROVE NoSends'
  BY <1>1, <1>9 DEF PeerCloses, PeerResets
<1>10. ASSUME NEW t \in IOThreads, ConnectHanadler(t) \/ RecvHandler(t) \/ DisconnectHandler(t)
       PROVE  NoSends'
  BY <1>1, <1>10 DEF ConnectHanadler, RecvHandler, DisconnectHandler, Associate, CallConnected, CountIn,
       CallPacket, Repost, Close, Rearm, CallDisconnected, CountOut
<1>11. CASE Arm \/ Run \/ UNCHANGED vars
  BY <1>1, <1>11 DEF Arm, Run, vars
<1> QED
  BY <1>3, <1>4, <1>5, <1>6, <1>7, <1>8, <1>9, <1>10, <1>11 DEF Next, ThreadTask, Completions

\* The armed objects and the arming threads are finite sets.
LEMMA CountsType ==
    ASSUME TypeOK
    PROVE  /\ IsFiniteSet(Armed) /\ IsFiniteSet(Arming)
           /\ Cardinality(Armed) \in Nat /\ Cardinality(Arming) \in Nat
           /\ toArm \in Nat /\ MaxConn \in Nat
<1>1. IsFiniteSet(1 .. created) /\ IsFiniteSet(1 .. MaxThreads)
  BY BoundsAssumption, FS_Interval DEF TypeOK
<1>2. Armed \subseteq 1 .. created /\ Arming \subseteq 1 .. MaxThreads
  BY DEF Armed, Arming, IOThreads
<1>3. IsFiniteSet(Armed) /\ IsFiniteSet(Arming)
  BY <1>1, <1>2, FS_Subset
<1>4. toArm \in Nat /\ MaxConn \in Nat
  BY BoundsAssumption DEF TypeOK
<1> QED
  BY <1>3, <1>4, FS_CardinalityType

\* A step that arms nothing and takes no object down.
LEMMA OwnQuiet ==
    ASSUME TypeOK, OwnAll, [Next]_vars,
           UNCHANGED <<toArm, created, handle, owner, resets>>,
           \A x \in Ids : recvOn'[x] \in {0, x},
           \A x \in Ids : conn'[x] = conn[x] \/ (conn[x] # "none" /\ conn'[x] # "closed")
                          \/ (x <= created /\ conn'[x] # "closed"),
           \A x \in Ids : calls'[x].disconnected > 0 => calls[x].disconnected > 0 \/ resets[x] = 1,
           \A t \in IOThreads : thread'[t].pc = "arm" <=> thread[t].pc = "arm",
           \A t \in IOThreads : thread'[t].pc \in {"arm", "disconnected", "uncount"}
                => thread[t].pc \in {"arm", "disconnected", "uncount"} /\ thread'[t].x = thread[t].x
    PROVE  (\A x \in Ids : Own(x)') /\ Closing' /\ SlotsKept'
<1>1. ASSUME NEW x \in Ids PROVE Own(x)'
  <2>1. Own(x) /\ NoSends
    BY DEF OwnAll
  <2>2. Alone(x, Takes)' /\ StaysLive(x, Takes)
    BY <2>1, AloneStep DEF Own
  <2>3. x > created <=> ~(x <= created)
    BY BoundsAssumption DEF Ids, TypeOK
  <2> QED
    BY <2>1, <2>2, <2>3 DEF Own, StaysLive
<1>2. Closing'
  BY DEF OwnAll, Closing
<1>3. SlotsKept'
  BY DEF OwnAll, SlotsKept, Armed, Arming
<1> QED
  BY <1>1, <1>2, <1>3

\* ReadyAcceptEx, when SetListenPort or ResetSocket calls it.
LEMMA OwnArmed ==
    ASSUME TypeOK, OwnAll, [Next]_vars, ReadyAcceptEx, UNCHANGED <<recvOn, resets, calls>>
    PROVE  /\ \A x \in Ids : Own(x)'
           /\ IsFiniteSet(Armed') /\ Cardinality(Armed') = Cardinality(Armed) + 1
<1> DEFINE n == created + 1
<1>1. n \in Ids /\ created' = n /\ n \in Nat /\ created \in Nat /\ conn' = conn
  <2>1. created \in 0 .. MaxSockets /\ MaxSockets \in Nat
    BY BoundsAssumption DEF TypeOK
  <2> QED
    BY <2>1, ArmedType
<1>2. PICK h \in Handles :
        /\ owner[h] = 0
        /\ handle' = [handle EXCEPT ![n] = h] /\ owner' = [owner EXCEPT ![h] = n]
  BY DEF ReadyAcceptEx
<1>3. ASSUME NEW x \in Ids PROVE Own(x)'
  <2>1. Own(x) /\ NoSends
    BY DEF OwnAll
  <2>2. Alone(x, Takes)' /\ StaysLive(x, Takes)
    BY <2>1, AloneStep DEF Own
  <2>3. Live(x, Takes)' => resets'[x] = 0
    BY <2>1, <2>2 DEF Own, StaysLive
  <2>4. x \in Nat /\ x # 0
    BY BoundsAssumption DEF Ids
  <2>5. CASE x = n
    <3>1. x > created /\ resets[x] = 0 /\ conn[x] = "none"
      BY <1>1, <2>1, <2>5 DEF Own
    <3>2. handle'[x] = h /\ owner'[h] = x
      BY <1>1, <1>2, <2>5 DEF TypeOK
    <3> QED
      BY <1>1, <2>1, <2>2, <2>3, <2>5, <3>1, <3>2 DEF Own
  <2>6. CASE x # n
    <3>1. x <= created' <=> x <= created
      BY <1>1, <2>4, <2>6
    <3>2. handle'[x] = handle[x]
      BY <1>1, <1>2, <2>6 DEF TypeOK
    <3>3. owner[handle[x]] = x /\ handle[x] \in Handles => owner'[handle[x]] = x
      BY <1>2, <2>4 DEF TypeOK
    <3>4. x > created' => x > created
      BY <1>1, <2>4
    <3> QED
      BY <1>1, <2>1, <2>2, <2>3, <3>1, <3>2, <3>3, <3>4 DEF Own
  <2> QED
    BY <2>5, <2>6
<1>4. Armed' = Armed \cup {n} /\ n \notin Armed
  <2>1. resets[n] = 0
    BY <1>1 DEF OwnAll, Own
  <2> QED
    BY <1>1, <2>1 DEF Armed
<1>5. IsFiniteSet(Armed)
  BY CountsType
<1> HIDE DEF n
<1> QED
  BY <1>3, <1>4, <1>5, FS_AddElement

LEMMA OwnArm ==
    ASSUME TypeOK, OwnAll, Arm
    PROVE  (\A x \in Ids : Own(x)') /\ Closing' /\ SlotsKept'
<1> USE DEF ops, history
<1>0. [Next]_vars /\ ReadyAcceptEx /\ UNCHANGED <<recvOn, resets, calls, thread>> /\ toArm' = toArm - 1
  BY DEF Arm, Next
<1>1. (\A x \in Ids : Own(x)') /\ Cardinality(Armed') = Cardinality(Armed) + 1
  BY <1>0, OwnArmed
<1>2. Closing'
  BY <1>0 DEF OwnAll, Closing
<1>3. Arming' = Arming
  BY <1>0 DEF Arming
<1>4. SlotsKept'
  BY <1>0, <1>1, <1>3, CountsType DEF OwnAll, SlotsKept
<1> QED
  BY <1>1, <1>2, <1>4

LEMMA OwnRearm ==
    ASSUME TypeOK, OwnAll, NEW t \in IOThreads, Rearm(t)
    PROVE  (\A x \in Ids : Own(x)') /\ Closing' /\ SlotsKept'
<1> USE DEF system, ops, history
<1>0. /\ [Next]_vars /\ ReadyAcceptEx /\ UNCHANGED <<recvOn, resets, calls, toArm>>
      /\ thread[t].pc = "arm" /\ Goto(t, "disconnected", thread[t].x)
  BY DEF Rearm, Next, ThreadTask, DisconnectHandler
<1>1. (\A x \in Ids : Own(x)') /\ Cardinality(Armed') = Cardinality(Armed) + 1
  BY <1>0, OwnArmed
<1>2. /\ thread'[t] = [pc |-> "disconnected", x |-> thread[t].x]
      /\ \A u \in IOThreads \ {t} : thread'[u] = thread[u]
  BY <1>0, GotoHolds
<1>3. thread'[t].pc = "disconnected" /\ thread'[t].x = thread[t].x
  BY <1>2
<1>4. Closing'
  BY <1>0, <1>2, <1>3 DEF OwnAll, Closing
<1>5. Arming' = Arming \ {t} /\ t \in Arming
  BY <1>0, <1>2, <1>3 DEF Arming
<1>6. Cardinality(Arming') = Cardinality(Arming) - 1
  BY <1>5, CountsType, FS_RemoveElement
<1>7. SlotsKept'
  BY <1>0, <1>1, <1>6, CountsType DEF OwnAll, SlotsKept
<1> QED
  BY <1>1, <1>4, <1>7

\* ResetSocket closes the socket of the object it is called for.
LEMMA OwnClose ==
    ASSUME TypeOK, OwnAll, NEW t \in IOThreads, Close(t)
    PROVE  (\A x \in Ids : Own(x)') /\ Closing' /\ SlotsKept'
<1> USE DEF system, ops
<1>a. PICK y \in Ids : y = thread[t].x /\ y # 0
  BY BusyThread DEF Close
<1>0. /\ [Next]_vars /\ thread[t].pc = "close" /\ Goto(t, "arm", y)
      /\ resets' = [resets EXCEPT ![y] = @ + 1]
      /\ UNCHANGED <<toArm, created, handle, recvOn, acceptOn, cq, calls>>
  BY <1>a DEF Close, Next, ThreadTask, DisconnectHandler
<1>1. y \in Ids /\ y # 0 /\ Holds(t, y, Takes) /\ Live(y, Takes)
  BY <1>a, <1>0 DEF Holds, Takes, Live, Nowhere
<1>2. resets[y] = 0 /\ y <= created /\ Reached(y) = y /\ handle[y] \in Handles
  BY <1>1, LiveReaches DEF OwnAll
<1>3. conn' = [conn EXCEPT ![y] = "closed"] /\ owner' = [owner EXCEPT ![handle[y]] = 0]
  BY <1>a, <1>1, <1>2 DEF Close
<1>4. /\ thread'[t] = [pc |-> "arm", x |-> y]
      /\ \A u \in IOThreads \ {t} : thread'[u] = thread[u]
  BY <1>0, GotoHolds
<1>5. thread'[t].pc = "arm" /\ thread'[t].x = y
  BY <1>4
<1>6. resets'[y] = 1 /\ \A x \in Ids \ {y} : resets'[x] = resets[x]
  BY <1>0, <1>1, <1>2 DEF TypeOK
<1>7. ASSUME NEW x \in Ids, x # y PROVE Own(x)'
  <2>1. Own(x) /\ Own(y) /\ NoSends
    BY <1>1 DEF OwnAll
  <2>2. Alone(x, Takes)' /\ StaysLive(x, Takes)
    BY <1>0, <2>1, AloneStep DEF Own
  <2>3. conn'[x] = conn[x]
    BY <1>1, <1>3, <1>7 DEF TypeOK
  <2>4. x <= created /\ resets[x] = 0 => owner'[handle[x]] = x /\ handle[x] \in Handles
    BY <1>2, <1>3, <1>7, <2>1 DEF Own, TypeOK
  <2> QED
    BY <1>0, <1>6, <1>7, <2>1, <2>2, <2>3, <2>4 DEF Own, StaysLive
<1>8. Own(y)'
  <2>1. Own(y) /\ NoSends
    BY <1>1 DEF OwnAll
  <2>2. Alone(y, Takes)'
    BY <1>0, <1>1, <2>1, AloneStep DEF Own
  <2>3. ~Live(y, Takes)'
    <3>1. /\ \A i \in DOMAIN cq : ~Carries(i, y)
          /\ \A u \in IOThreads \ {t} : ~Holds(u, y, Takes)
          /\ recvOn[y] = 0 /\ y \notin acceptOn
      BY <1>1, <2>1 DEF Own, Alone, Nowhere
    <3>2. \A i \in DOMAIN cq' : ~Carries(i, y)'
      BY <1>0, <3>1 DEF Carries
    <3>3. \A u \in IOThreads : ~(thread'[u].x = y /\ thread'[u].pc \in Takes)
      BY <1>4, <1>5, <3>1 DEF Holds, Takes, Reads
    <3> QED
      BY <1>0, <3>1, <3>2, <3>3 DEF Live, Nowhere, Holds, Carries
  <2>4. ~(y > created)
    BY <1>1, <2>1 DEF Own, Alone, Live
  <2> QED
    BY <1>0, <1>2, <1>6, <2>1, <2>2, <2>3, <2>4 DEF Own
<1>9. Closing'
  <2> SUFFICES ASSUME NEW u \in IOThreads, thread'[u].pc \in {"arm", "disconnected", "uncount"}
               PROVE  resets'[thread'[u].x] = 1
    BY DEF Closing
  <2>1. CASE u = t
    BY <1>5, <1>6, <2>1
  <2>2. CASE u # t
    <3>1. thread'[u] = thread[u] /\ resets[thread[u].x] = 1 /\ thread[u].x \in Ids
      BY <1>4, <2>2, BusyThread DEF OwnAll, Closing
    <3> QED
      BY <1>2, <1>6, <3>1
  <2> QED
    BY <2>1, <2>2
<1>10. SlotsKept'
  <2>1. Armed' = Armed \ {y} /\ y \in Armed
    <3>1. created \in 0 .. MaxSockets /\ MaxSockets \in Nat
      BY BoundsAssumption DEF TypeOK
    <3>2. \A x \in 1 .. created : x \in Ids
      BY <3>1 DEF Ids
    <3>3. y \in 1 .. created
      BY <1>1, <1>2, <3>1 DEF Ids
    <3> QED
      BY <1>0, <1>2, <1>6, <3>2, <3>3 DEF Armed
  <2>2. Arming' = Arming \cup {t} /\ t \notin Arming
    BY <1>0, <1>4, <1>5 DEF Arming
  <2>3. Cardinality(Armed') = Cardinality(Armed) - 1
    BY <2>1, CountsType, FS_RemoveElement
  <2>4. Cardinality(Arming') = Cardinality(Arming) + 1
    BY <2>2, CountsType, FS_AddElement
  <2> QED
    BY <1>0, <2>3, <2>4, CountsType DEF OwnAll, SlotsKept
<1> QED
  BY <1>7, <1>8, <1>9, <1>10

\* The steps that arm nothing and take no object down.
LEMMA OwnOthers ==
    ASSUME TypeOK, OwnAll, Next, sent' = {},
           ~Arm, \A t \in IOThreads : ~Rearm(t) /\ ~Close(t)
    PROVE  (\A x \in Ids : Own(x)') /\ Closing' /\ SlotsKept'
<1> USE DEF system, sockets, ops, history
<1>0. /\ \A x \in Ids : recvOn[x] \in {0, x} /\ Own(x)
      /\ \A x \in acceptOn : x \in Ids /\ x <= created
  <2>1. \A x \in acceptOn : x \in Ids /\ Live(x, Takes)
    BY DEF TypeOK, Live
  <2> QED
    BY <2>1, LiveReaches DEF OwnAll, Own
<1>1. CASE Run
  BY <1>0, <1>1, OwnQuiet DEF Run
<1>2. ASSUME NEW t \in IOThreads, GetQueuedCompletionStatus(t)
      PROVE  (\A x \in Ids : Own(x)') /\ Closing' /\ SlotsKept'
  <2>1. PICK pc \in {"associate", "packet", "close", "get"} : Take(t, pc)
    BY <1>2 DEF GetQueuedCompletionStatus, GetAccept, GetData, GetEnd, GetSent, GetFailed, GetIgnored
  <2>2. /\ thread[t].pc = "get" /\ thread'[t].pc = pc
        /\ \A u \in IOThreads \ {t} : thread'[u] = thread[u]
        /\ UNCHANGED <<toArm, created, handle, owner, resets, recvOn, conn, calls>>
    BY <2>1 DEF Take, TypeOK, Idle
  <2> QED
    BY <1>0, <2>2, OwnQuiet
<1>3. ASSUME NEW t \in IOThreads, ConnectHanadler(t) \/ RecvHandler(t) \/ CallDisconnected(t) \/ CountOut(t)
      PROVE  (\A x \in Ids : Own(x)') /\ Closing' /\ SlotsKept'
  <2>0. PICK y : y = thread[t].x
    OBVIOUS
  <2>1. y \in Ids
    BY <1>3, <2>0, BusyThread DEF ConnectHanadler, RecvHandler, Associate, CallConnected, CountIn, CallPacket,
         Repost, CallDisconnected, CountOut
  <2>2. PICK pc, z :
          /\ Goto(t, pc, z) /\ pc # "arm" /\ thread[t].pc # "arm"
          /\ pc \in {"disconnected", "uncount"} =>
               thread[t].pc = "disconnected" /\ z = thread[t].x
    BY <1>3 DEF ConnectHanadler, RecvHandler, Associate, CallConnected, CountIn, CallPacket,
         Repost, CallDisconnected, CountOut
  <2>3. /\ thread'[t] = [pc |-> pc, x |-> z]
        /\ \A u \in IOThreads \ {t} : thread'[u] = thread[u]
    BY <2>2, GotoHolds
  <2>4. thread'[t].pc = pc /\ thread'[t].x = z
    BY <2>3
  <2>5. UNCHANGED <<toArm, created, handle, owner, resets, conn>>
    BY <1>3 DEF ConnectHanadler, RecvHandler, Associate, CallConnected, CountIn, CallPacket,
         Repost, CallDisconnected, CountOut
  <2>6. \A x \in Ids : recvOn'[x] \in {0, x}
    <3>1. CASE recvOn' = recvOn
      BY <1>0, <3>1
    <3>2. CASE recvOn' # recvOn
      <4>1. PostRecv(y) /\ thread[t].pc \in {"associate", "repost"}
        BY <1>3, <2>0, <3>2 DEF ConnectHanadler, RecvHandler, Associate, CallConnected, CountIn, CallPacket,
             Repost, CallDisconnected, CountOut
      <4>2. Live(y, Takes)
        BY <2>0, <4>1 DEF Live, Nowhere, Holds, Takes, Reads
      <4>3. Reached(y) = y
        BY <2>1, <4>2, LiveReaches DEF OwnAll
      <4> QED
        BY <1>0, <2>1, <4>1, <4>3 DEF PostRecv, TypeOK
    <3> QED
      BY <3>1, <3>2
  <2>7. \A x \in Ids : calls'[x].disconnected > 0 => calls[x].disconnected > 0 \/ resets[x] = 1
    <3>0. calls \in [Ids -> [connected : Nat, packet : Nat, disconnected : Nat]]
      BY DEF TypeOK
    <3>1. CASE CallDisconnected(t)
      <4>1. calls' = [calls EXCEPT ![y].disconnected = @ + 1] /\ resets[y] = 1
        BY <2>0, <3>1 DEF CallDisconnected, OwnAll, Closing
      <4> QED
        BY <2>1, <3>0, <4>1
    <3>2. CASE ~CallDisconnected(t)
      <4>1. \/ calls' = calls
            \/ calls' = [calls EXCEPT ![y].connected = @ + 1]
            \/ calls' = [calls EXCEPT ![y].packet = @ + 1]
        BY <1>3, <2>0, <3>2 DEF ConnectHanadler, RecvHandler, Associate, CallConnected, CountIn, CallPacket,
             Repost, CountOut
      <4> QED
        BY <2>1, <3>0, <4>1
    <3> QED
      BY <3>1, <3>2
  <2>8. \A u \in IOThreads : thread'[u].pc = "arm" <=> thread[u].pc = "arm"
    BY <2>2, <2>3, <2>4
  <2>9. \A u \in IOThreads : thread'[u].pc \in {"arm", "disconnected", "uncount"}
           => thread[u].pc \in {"arm", "disconnected", "uncount"} /\ thread'[u].x = thread[u].x
    BY <2>2, <2>3, <2>4
  <2> QED
    BY <2>5, <2>6, <2>7, <2>8, <2>9, OwnQuiet
<1>4. CASE ClientConnects \/ ClientAborts
  <2>1. PICK y \in acceptOn : conn' = conn \/ conn' = [conn EXCEPT ![y] = "up"]
    BY <1>4, ListeningType, MinInSet DEF ClientConnects, ClientAborts
  <2>2. \A x \in Ids : conn'[x] = conn[x] \/ (x <= created /\ conn'[x] # "closed")
    BY <1>0, <2>1 DEF TypeOK
  <2> QED
    BY <1>0, <1>4, <2>2, OwnQuiet DEF ClientConnects, ClientAborts
<1>5. ASSUME NEW y \in Ids, AcceptCancelled(y)
      PROVE  (\A x \in Ids : Own(x)') /\ Closing' /\ SlotsKept'
  BY <1>0, <1>5, OwnQuiet DEF AcceptCancelled
<1>6. ASSUME NEW y \in Ids, PeerCloses(y) \/ PeerResets(y)
      PROVE  (\A x \in Ids : Own(x)') /\ Closing' /\ SlotsKept'
  <2>1. \A x \in Ids : conn'[x] = conn[x] \/ (conn[x] # "none" /\ conn'[x] # "closed")
    BY <1>6 DEF PeerCloses, PeerResets, TypeOK
  <2> QED
    BY <1>0, <1>6, <2>1, OwnQuiet DEF PeerCloses, PeerResets
<1>7. ASSUME NEW y \in Ids, DataArrives(y) \/ EofArrives(y) \/ RecvFails(y)
      PROVE  (\A x \in Ids : Own(x)') /\ Closing' /\ SlotsKept'
  <2>1. recvOn' = [recvOn EXCEPT ![y] = 0] /\ UNCHANGED <<system, sockets, thread, history>>
    BY <1>7 DEF DataArrives, EofArrives, RecvFails, RecvCompletes
  <2>2. \A x \in Ids : recvOn'[x] \in {0, x}
    BY <1>0, <2>1 DEF TypeOK
  <2> QED
    BY <2>1, <2>2, OwnQuiet
<1>8. ASSUME NEW y \in Ids, SendCompletes(y)
      PROVE  (\A x \in Ids : Own(x)') /\ Closing' /\ SlotsKept'
  BY <1>8 DEF SendCompletes, OwnAll, NoSends
<1>9. ASSUME NEW y \in Ids, AppSend(y)
      PROVE  (\A x \in Ids : Own(x)') /\ Closing' /\ SlotsKept'
  BY <1>9 DEF AppSend
<1> QED
  BY <1>1, <1>2, <1>3, <1>4, <1>5, <1>6, <1>7, <1>8, <1>9
  DEF Next, ThreadTask, DisconnectHandler, Completions

LEMMA OwnInit == Init => OwnInv
<1> SUFFICES ASSUME Init PROVE OwnAll
  BY DEF OwnInv, OwnAll
<1>1. /\ DOMAIN cq = {} /\ acceptOn = {} /\ created = 0 /\ toArm = MaxConn
      /\ \A t \in IOThreads : thread[t].pc = "get"
      /\ \A x \in Ids : /\ recvOn[x] = 0 /\ sendOn[x] = 0 /\ resets[x] = 0 /\ conn[x] = "none"
                        /\ calls[x].disconnected = 0
  BY DEF Init, Idle
<1>2. \A x \in Ids : x \in Nat /\ ~(x <= 0)
  BY BoundsAssumption DEF Ids
<1>3. \A x \in Ids : Own(x)
  BY <1>1, <1>2 DEF Own, Alone, Live, Nowhere, Holds, Takes, Reads
<1>4. Armed = {} /\ Arming = {}
  BY <1>1 DEF Armed, Arming
<1>5. SlotsKept
  BY <1>1, <1>4, FS_EmptySet, BoundsAssumption DEF SlotsKept
<1> QED
  BY <1>1, <1>3, <1>5 DEF OwnAll, NoSends, Closing

LEMMA OwnStep == TypeOK /\ OwnInv /\ [Next]_vars => OwnInv'
<1> SUFFICES ASSUME TypeOK, OwnInv, [Next]_vars, sent' = {} PROVE OwnAll'
  BY DEF OwnInv, OwnAll
<1>1. sent = {}
  BY DEF Next, vars, history, Arm, Run, ThreadTask, GetQueuedCompletionStatus, GetAccept, GetData, GetEnd,
     GetSent, GetFailed, GetIgnored, Take, ConnectHanadler, Associate, CallConnected, CountIn,
     RecvHandler, CallPacket, Repost, DisconnectHandler, Close, Rearm, CallDisconnected, CountOut,
     ClientConnects, ClientAborts, AppSend, PeerCloses, PeerResets, DataArrives, Completions,
     AcceptCancelled, EofArrives, RecvFails, RecvCompletes, SendCompletes
<1>2. OwnAll
  BY <1>1 DEF OwnInv, OwnAll
<1>3. NoSends'
  BY <1>2, NoSendsStep DEF OwnAll
<1>4. CASE UNCHANGED vars
  BY <1>2, <1>4 DEF vars, system, sockets, ops, history, OwnAll, NoSends, Own, Alone, Live, Nowhere, Carries,
     Holds, Closing, SlotsKept, Armed, Arming
<1>5. CASE Next
  <2>1. CASE Arm
    BY <1>2, <1>3, <2>1, OwnArm DEF OwnAll
  <2>2. ASSUME NEW t \in IOThreads, Rearm(t) PROVE OwnAll'
    BY <1>2, <1>3, <2>2, OwnRearm DEF OwnAll
  <2>3. ASSUME NEW t \in IOThreads, Close(t) PROVE OwnAll'
    BY <1>2, <1>3, <2>3, OwnClose DEF OwnAll
  <2>4. CASE ~Arm /\ \A t \in IOThreads : ~Rearm(t) /\ ~Close(t)
    BY <1>2, <1>3, <1>5, <2>4, OwnOthers DEF OwnAll
  <2> QED
    BY <2>1, <2>2, <2>3, <2>4
<1> QED
  BY <1>4, <1>5

LEMMA OwnImplies == TypeOK /\ OwnInv => OwnHandle
<1> SUFFICES ASSUME TypeOK, OwnAll, NEW x \in Ids
             PROVE  /\ resets[x] + Cardinality(At({"close"}, x)) <= 1
                    /\ At({"close", "associate", "repost"}, x) # {} => Reached(x) = x
                    /\ recvOn[x] \in {0, x}
  BY DEF OwnInv, OwnAll, OwnHandle
<1>1. Own(x)
  BY DEF OwnAll
<1>2. \A t \in At({"close", "associate", "repost"}, x) \cup At({"close"}, x) :
        t \in IOThreads /\ Holds(t, x, Takes)
  BY DEF At, Holds, Takes, Reads
<1>3. At({"close", "associate", "repost"}, x) \cup At({"close"}, x) # {}
        => resets[x] = 0 /\ Reached(x) = x
  BY <1>1, <1>2, LiveReaches DEF Live, Nowhere
<1>4. \A t, u \in At({"close"}, x) : t = u
  BY <1>1, <1>2 DEF Own, Alone
<1>5. resets[x] \in {0, 1}
  BY <1>1 DEF Own
<1> QED
  BY <1>1, <1>3, <1>4, <1>5, AtMostOne DEF Own

LEMMA SlotsImply == TypeOK /\ OwnInv => CapacityConserved
<1> SUFFICES ASSUME TypeOK, OwnAll
             PROVE  toArm + Cardinality(acceptOn)
                      + Cardinality({x \in 1 .. created : x \notin acceptOn /\ resets[x] = 0})
                      + Cardinality({t \in IOThreads : thread[t].pc = "arm"}) = MaxConn
  BY DEF OwnInv, OwnAll, CapacityConserved
<1> DEFINE B == {x \in 1 .. created : x \notin acceptOn /\ resets[x] = 0}
<1>1. \A x \in acceptOn : x \in Ids /\ resets[x] = 0 /\ x <= created
  <2>1. \A x \in acceptOn : x \in Ids /\ Live(x, Takes)
    BY DEF TypeOK, Live
  <2> QED
    BY <2>1, LiveReaches DEF OwnAll
<1>2. acceptOn \subseteq Armed /\ B \subseteq Armed /\ Armed = acceptOn \cup B /\ acceptOn \cap B = {}
  BY <1>1, BoundsAssumption DEF Armed, Ids
<1> HIDE DEF B
<1>3. IsFiniteSet(acceptOn) /\ IsFiniteSet(B)
  BY <1>2, CountsType, FS_Subset
<1>4. Cardinality(acceptOn) \in Nat /\ Cardinality(B) \in Nat
  BY <1>3, FS_CardinalityType
<1>5. Cardinality(Armed) = Cardinality(acceptOn) + Cardinality(B)
  <2>1. Cardinality(acceptOn \cup B) =
          Cardinality(acceptOn) + Cardinality(B) - Cardinality(acceptOn \cap B)
    BY <1>3, FS_Union
  <2>2. Cardinality(acceptOn \cap B) = 0
    BY <1>2, FS_EmptySet, Zenon
  <2>3. Cardinality(Armed) = Cardinality(acceptOn \cup B)
    BY <1>2, Zenon
  <2> QED
    BY <1>4, <2>1, <2>2, <2>3
<1>6. toArm + Cardinality(acceptOn) + Cardinality(B) + Cardinality(Arming) = MaxConn
  BY <1>4, <1>5, CountsType DEF OwnAll, SlotsKept
<1> QED
  BY <1>6 DEF B, Arming

LEMMA PacketStep ==
    ASSUME TypeOK, OwnInv, [Next]_vars
    PROVE  \A x \in Ids : calls'[x].packet # calls[x].packet /\ sent = {}
              => calls[x].disconnected = 0
<1> SUFFICES ASSUME NEW x \in Ids, calls'[x].packet # calls[x].packet, sent = {}
             PROVE  calls[x].disconnected = 0
  OBVIOUS
<1>0. calls \in [Ids -> [connected : Nat, packet : Nat, disconnected : Nat]]
  BY DEF TypeOK
<1>1. PICK t \in IOThreads : CallPacket(t) /\ thread[t].x = x
  <2>1. ASSUME NEW t \in IOThreads, NEW y, thread[t].x = y,
               \/ calls' = [calls EXCEPT ![y].connected = @ + 1]
               \/ calls' = [calls EXCEPT ![y].disconnected = @ + 1]
        PROVE  FALSE
    BY <1>0, <2>1
  <2>2. ASSUME NEW t \in IOThreads, CallConnected(t) \/ CallDisconnected(t) PROVE FALSE
    BY <2>1, <2>2 DEF CallConnected, CallDisconnected
  <2>3. calls' # calls
    OBVIOUS
  <2>4. PICK t \in IOThreads : CallPacket(t)
    BY <2>2, <2>3
    DEF Next, vars, history, Arm, Run, ThreadTask, GetQueuedCompletionStatus, GetAccept, GetData, GetEnd,
        GetSent, GetFailed, GetIgnored, Take, ConnectHanadler, Associate, CountIn, RecvHandler, Repost,
        DisconnectHandler, Close, Rearm, CountOut, ClientConnects, ClientAborts, AppSend, PeerCloses,
        PeerResets, DataArrives, Completions, AcceptCancelled, EofArrives, RecvFails, RecvCompletes,
        SendCompletes
  <2>5. PICK y : y = thread[t].x
    OBVIOUS
  <2>6. calls' = [calls EXCEPT ![y].packet = @ + 1]
    BY <2>4, <2>5 DEF CallPacket
  <2>7. y = x
    BY <1>0, <2>6
  <2> QED
    BY <2>4, <2>5, <2>7
<1>2. Own(x) /\ Live(x, Takes)
  BY <1>1 DEF OwnInv, CallPacket, Live, Nowhere, Holds, Takes, Reads
<1>3. resets[x] = 0 /\ ~(calls[x].disconnected > 0)
  BY <1>2 DEF Own
<1> QED
  BY <1>0, <1>3

LEMMA OwnInvariant == Spec => [](TypeOK /\ OwnInv)
<1>1. TypeOK /\ OwnInv /\ [Next]_vars => TypeOK' /\ OwnInv'
  BY TypeStep, OwnStep
<1> QED
  BY TypeInit, OwnInit, <1>1, PTL DEF Spec

\* Until the application sends: a connection is taken down once, through its own
\* handle, although handle numbers are used again (TCPSocket.cpp:77).
THEOREM DisconnectsItself == Spec => []OwnHandle
  BY OwnInvariant, OwnImplies, PTL

\* Until the application sends: of inMaxConnections accept slots none is lost and
\* none doubled, whatever is accepted, closed, reset or aborted.
THEOREM SlotsConserved == Spec => []CapacityConserved
  BY OwnInvariant, SlotsImply, PTL

\* Until the application sends: PacketHandler never runs on a connection after its
\* DisconnectedHandler, for any number of IO threads.
THEOREM EndIsLast == Spec => NoPacketAfterEnd
<1>1. TypeOK /\ OwnInv /\ [Next]_vars =>
        [\A x \in Ids : calls'[x].packet # calls[x].packet /\ sent = {}
            => calls[x].disconnected = 0]_vars
  BY PacketStep
<1> QED
  BY OwnInvariant, <1>1, PTL DEF Spec, NoPacketAfterEnd

-----------------------------------------------------------------------------
(* GetClientSize                                                           *)

\* Object x was not yet handed to ConnectHanadler by the application's view: it is
\* not created, waits for its client, or its accept waits to be handled.
Fresh(x) ==
    \/ x > created
    \/ x \in acceptOn
    \/ \E i \in DOMAIN cq : cq[i].op = "ACCEPT" /\ cq[i].x = x
    \/ \E t \in IOThreads : Holds(t, x, {"associate"})

\* ConnectedHandler runs once on x: a thread that is about to call it is the
\* only one, and the accept of x is behind it.
BegunOnce(x) ==
    /\ \A t, u \in IOThreads : Holds(t, x, {"connected"}) /\ Holds(u, x, {"connected"}) => t = u
    /\ (\E t \in IOThreads : Holds(t, x, {"connected"})) => ~Fresh(x) /\ calls[x].connected = 0
    /\ Fresh(x) => calls[x].connected = 0
    /\ calls[x].connected <= 1

\* The connections begun, the ends reported (an object may see two), and the
\* threads at one step.
Begun == {x \in Ids : calls[x].connected > 0}
Ended == {e \in Ids \X Nat : e[2] # 0 /\ e[2] <= calls[e[1]].disconnected}
Doing(pc) == {t \in IOThreads : thread[t].pc = pc}

\* _clientSize moved once for each call that was made, except for the threads
\* between the call and the count.
SizeKept ==
    /\ IsFiniteSet(Ended)
    /\ clientSize - startSize =
         Cardinality(Begun) - Cardinality(Doing("count"))
           - (Cardinality(Ended) - Cardinality(Doing("uncount")))

SizeInv == SerialInv /\ (\A x \in Ids : BegunOnce(x)) /\ SizeKept

\* A completion of the queue that a step left was there before, or was just put
\* there by the kernel.
LEMMA AcceptsQueued ==
    ASSUME TypeOK, [Next]_vars, NEW x \in Ids,
           NEW i \in DOMAIN cq', cq'[i].op = "ACCEPT", cq'[i].x = x
    PROVE  x \in acceptOn \/ \E j \in DOMAIN cq : cq[j].op = "ACCEPT" /\ cq[j].x = x
<1> USE DEF system, sockets, ops, history
<1>1. CASE cq' = cq
  BY <1>1
<1>2. ASSUME NEW op \in {"ACCEPT", "RECV", "SEND"}, NEW y \in Ids,
             NEW res \in {"ok", "zero", "err64", "other"}, Complete(op, y, res),
             op = "ACCEPT" => y \in acceptOn
      PROVE  x \in acceptOn \/ \E j \in DOMAIN cq : cq[j].op = "ACCEPT" /\ cq[j].x = x
  <2> DEFINE c == [op |-> op, x |-> y, res |-> res]
  <2>1. cq \in Seq(Completion) /\ c \in Completion /\ cq' = Append(cq, c) /\ c.op = op /\ c.x = y
    BY <1>2 DEF TypeOK, Completion, Complete
  <2> HIDE DEF c
  <2>2. \A j \in DOMAIN cq' : (j \in DOMAIN cq /\ cq'[j] = cq[j]) \/ cq'[j] = c
    BY <2>1, AppendAt
  <2> QED
    BY <1>2, <2>1, <2>2
<1>3. ASSUME NEW t \in IOThreads, NEW pc, Take(t, pc)
      PROVE  \E j \in DOMAIN cq : cq[j].op = "ACCEPT" /\ cq[j].x = x
  <2>1. cq # <<>> /\ cq' = Tail(cq) /\ cq \in Seq(Completion)
    BY <1>3 DEF Take, TypeOK
  <2>2. \A j \in DOMAIN cq' : j + 1 \in DOMAIN cq /\ cq'[j] = cq[j + 1]
    BY <2>1, TailAt, Zenon
  <2> QED
    BY <2>2
<1>4. CASE ClientConnects \/ ClientAborts
  <2>1. PICK y \in Ids, res \in {"ok", "err64"} : Complete("ACCEPT", y, res) /\ y \in acceptOn
    BY <1>4, ListeningType, MinInSet DEF ClientConnects, ClientAborts
  <2> QED
    BY <1>2, <2>1
<1>5. ASSUME NEW y \in Ids, AcceptCancelled(y)
      PROVE  x \in acceptOn \/ \E j \in DOMAIN cq : cq[j].op = "ACCEPT" /\ cq[j].x = x
  BY <1>2, <1>5 DEF AcceptCancelled
<1>6. ASSUME NEW y \in Ids, DataArrives(y) \/ EofArrives(y) \/ RecvFails(y)
      PROVE  x \in acceptOn \/ \E j \in DOMAIN cq : cq[j].op = "ACCEPT" /\ cq[j].x = x
  <2>1. PICK res \in {"ok", "zero", "err64", "other"} : Complete("RECV", y, res)
    BY <1>6, ErrorsAssumption DEF DataArrives, EofArrives, RecvFails, RecvCompletes
  <2> QED
    BY <1>2, <2>1
<1>7. ASSUME NEW y \in Ids, SendCompletes(y)
      PROVE  x \in acceptOn \/ \E j \in DOMAIN cq : cq[j].op = "ACCEPT" /\ cq[j].x = x
  <2>1. PICK res \in {"ok", "zero", "err64", "other"} : Complete("SEND", y, res)
    BY <1>7, ErrorsAssumption DEF SendCompletes
  <2> QED
    BY <1>2, <2>1
<1>8. ASSUME NEW t \in IOThreads, GetQueuedCompletionStatus(t)
      PROVE  \E j \in DOMAIN cq : cq[j].op = "ACCEPT" /\ cq[j].x = x
  BY <1>3, <1>8 DEF GetQueuedCompletionStatus, GetAccept, GetData, GetEnd, GetSent, GetFailed, GetIgnored
<1>9. ASSUME NEW t \in IOThreads, ConnectHanadler(t) \/ RecvHandler(t) \/ DisconnectHandler(t)
      PROVE  cq' = cq
  BY <1>9 DEF ConnectHanadler, RecvHandler, DisconnectHandler, Associate, CallConnected, CountIn,
       CallPacket, Repost, Close, Rearm, CallDisconnected, CountOut
<1>10. ASSUME NEW y \in Ids, AppSend(y) \/ PeerCloses(y) \/ PeerResets(y) PROVE cq' = cq
  BY <1>10 DEF AppSend, PeerCloses, PeerResets
<1>11. Arm \/ Run \/ UNCHANGED vars => cq' = cq
  BY DEF Arm, Run, vars
<1> QED
  BY <1>1, <1>4, <1>5, <1>6, <1>7, <1>8, <1>9, <1>10, <1>11 DEF Next, ThreadTask, Completions

\* What a step does to the steps the threads are at, and to the calls made.
LEMMA ThreadMoves ==
    ASSUME TypeOK, [Next]_vars
    PROVE  \/ UNCHANGED <<thread, calls, clientSize>>
           \/ \E t \in IOThreads : ThreadTask(t)
<1> USE DEF system, sockets, ops, history
<1>1. ASSUME NEW x \in Ids, AppSend(x) \/ PeerCloses(x) \/ PeerResets(x) \/ DataArrives(x) \/ Completions(x)
      PROVE  UNCHANGED <<thread, calls, clientSize>>
  BY <1>1 DEF AppSend, PeerCloses, PeerResets, DataArrives, Completions, AcceptCancelled, EofArrives,
       RecvFails, RecvCompletes, SendCompletes
<1>2. ClientConnects \/ ClientAborts \/ Arm \/ Run \/ UNCHANGED vars => UNCHANGED <<thread, calls, clientSize>>
  BY DEF ClientConnects, ClientAborts, Arm, Run, vars
<1> QED
  BY <1>1, <1>2 DEF Next

\* The start value of _clientSize is a history variable.
LEMMA StartKept ==
    ASSUME [Next]_vars
    PROVE  startSize' = startSize
<1> USE DEF system, sockets, ops, history
<1>1. ASSUME NEW x \in Ids, AppSend(x) \/ PeerCloses(x) \/ PeerResets(x) \/ DataArrives(x) \/ Completions(x)
      PROVE  UNCHANGED startSize
  BY <1>1 DEF AppSend, PeerCloses, PeerResets, DataArrives, Completions, AcceptCancelled, EofArrives,
       RecvFails, RecvCompletes, SendCompletes
<1>2. ASSUME NEW t \in IOThreads, ThreadTask(t) PROVE UNCHANGED startSize
  BY <1>2 DEF ThreadTask, GetQueuedCompletionStatus, GetAccept, GetData, GetEnd, GetSent, GetFailed,
       GetIgnored, Take, ConnectHanadler, Associate, CallConnected, CountIn, RecvHandler, CallPacket,
       Repost, DisconnectHandler, Close, Rearm, CallDisconnected, CountOut
<1>3. ClientConnects \/ ClientAborts \/ Arm \/ Run \/ UNCHANGED vars => UNCHANGED startSize
  BY DEF ClientConnects, ClientAborts, Arm, Run, vars
<1> QED
  BY <1>1, <1>2, <1>3 DEF Next

\* Objects are created by ReadyAcceptEx alone, and no other step arms one.
LEMMA SlotMoves ==
    ASSUME TypeOK, [Next]_vars
    PROVE  (created' = created /\ acceptOn' \subseteq acceptOn) \/ ReadyAcceptEx
<1> USE DEF system, sockets, ops, history
<1>1. ASSUME NEW x \in Ids, AppSend(x) \/ PeerCloses(x) \/ PeerResets(x) \/ DataArrives(x) \/ Completions(x)
      PROVE  created' = created /\ acceptOn' \subseteq acceptOn
  BY <1>1 DEF AppSend, PeerCloses, PeerResets, DataArrives, Completions, AcceptCancelled, EofArrives,
       RecvFails, RecvCompletes, SendCompletes
<1>2. ASSUME NEW t \in IOThreads, ThreadTask(t), ~Rearm(t) PROVE created' = created /\ acceptOn' \subseteq acceptOn
  BY <1>2 DEF ThreadTask, GetQueuedCompletionStatus, GetAccept, GetData, GetEnd, GetSent, GetFailed,
       GetIgnored, Take, ConnectHanadler, Associate, CallConnected, CountIn, RecvHandler, CallPacket,
       Repost, DisconnectHandler, Close, CallDisconnected, CountOut
<1>3. ASSUME NEW t \in IOThreads, Rearm(t) PROVE ReadyAcceptEx
  BY <1>3 DEF Rearm
<1>4. Arm => ReadyAcceptEx
  BY DEF Arm
<1>5. ClientConnects \/ ClientAborts \/ Run \/ UNCHANGED vars
        => created' = created /\ acceptOn' \subseteq acceptOn
  BY DEF ClientConnects, ClientAborts, Run, vars
<1> QED
  BY <1>1, <1>2, <1>3, <1>4, <1>5 DEF Next

\* A thread enters "associate" or "connected" one way.
LEMMA BeginMoves ==
    ASSUME TypeOK, [Next]_vars, NEW t \in IOThreads
    PROVE  /\ thread'[t].pc = "associate" => thread'[t] = thread[t] \/ GetAccept(t)
           /\ thread'[t].pc = "connected" => thread'[t] = thread[t] \/ (Associate(t) /\ Goto(t, "connected", thread[t].x))
<1>1. CASE UNCHANGED <<thread, calls, clientSize>>
  BY <1>1
<1>2. CASE \E u \in IOThreads : ThreadTask(u)
  <2>1. PICK u \in IOThreads : ThreadTask(u)
    BY <1>2
  <2>2. CASE u # t
    <3>1. \E pc, y : Goto(u, pc, y) \/ Take(u, pc)
      BY <2>1 DEF ThreadTask, GetQueuedCompletionStatus, GetAccept, GetData, GetEnd, GetSent, GetFailed,
           GetIgnored, ConnectHanadler, Associate, CallConnected, CountIn, RecvHandler, CallPacket,
           Repost, DisconnectHandler, Close, Rearm, CallDisconnected, CountOut
    <3>2. thread'[t] = thread[t]
      BY <2>2, <3>1 DEF Goto, Take, TypeOK
    <3> QED
      BY <3>2
  <2>3. CASE u = t
    <3>1. ASSUME NEW pc, Take(t, pc) PROVE thread'[t].pc = pc
      BY <3>1 DEF Take, TypeOK
    <3>2. ASSUME NEW pc, NEW y, Goto(t, pc, y) PROVE thread'[t].pc = pc
      BY <3>2 DEF Goto, TypeOK
    <3>3. ASSUME GetQueuedCompletionStatus(t), ~GetAccept(t) PROVE thread'[t].pc \in {"packet", "close", "get"}
      BY <3>1, <3>3 DEF GetQueuedCompletionStatus, GetData, GetEnd, GetSent, GetFailed, GetIgnored
    <3>4. ASSUME GetAccept(t) PROVE thread'[t].pc = "associate"
      BY <3>1, <3>4 DEF GetAccept
    <3>5. ASSUME Associate(t) PROVE thread'[t].pc = "get" \/ (Goto(t, "connected", thread[t].x) /\ thread'[t].pc = "connected")
      BY <3>2, <3>5 DEF Associate
    <3>6. ASSUME \/ CallConnected(t) \/ CountIn(t) \/ CallPacket(t) \/ Repost(t)
                 \/ Close(t) \/ Rearm(t) \/ CallDisconnected(t) \/ CountOut(t)
          PROVE  thread'[t].pc \notin {"associate", "connected"}
      BY <3>2, <3>6 DEF CallConnected, CountIn, CallPacket, Repost, Close, Rearm, CallDisconnected, CountOut
    <3> QED
      BY <2>1, <2>3, <3>3, <3>4, <3>5, <3>6 DEF ThreadTask, ConnectHanadler, RecvHandler, DisconnectHandler
  <2> QED
    BY <2>2, <2>3
<1> QED
  BY <1>1, <1>2, ThreadMoves

\* An object does not become fresh again.
LEMMA FreshGoes ==
    ASSUME TypeOK, [Next]_vars, NEW x \in Ids, Fresh(x)'
    PROVE  Fresh(x)
<1>0. created \in Nat /\ x \in Nat
  BY BoundsAssumption DEF TypeOK, Ids
<1>1. CASE x > created' \/ x \in acceptOn'
  <2>1. CASE ReadyAcceptEx
    BY <1>0, <1>1, <2>1 DEF ReadyAcceptEx, Fresh
  <2>2. CASE created' = created /\ acceptOn' \subseteq acceptOn
    BY <1>1, <2>2 DEF Fresh
  <2> QED
    BY <2>1, <2>2, SlotMoves
<1>2. CASE \E i \in DOMAIN cq' : cq'[i].op = "ACCEPT" /\ cq'[i].x = x
  BY <1>2, AcceptsQueued DEF Fresh
<1>3. CASE \E t \in IOThreads : Holds(t, x, {"associate"})'
  <2>1. PICK t \in IOThreads : thread'[t].x = x /\ thread'[t].pc = "associate"
    BY <1>3 DEF Holds
  <2>2. CASE thread'[t] = thread[t]
    BY <2>1, <2>2 DEF Fresh, Holds
  <2>3. CASE GetAccept(t)
    <3>1. cq # <<>> /\ Head(cq).op = "ACCEPT" /\ thread'[t] = [pc |-> "associate", x |-> Head(cq).x]
      BY <2>3 DEF GetAccept, Take, TypeOK
    <3>2. 1 \in DOMAIN cq /\ Head(cq) = cq[1]
      BY <3>1, HeadType
    <3> QED
      BY <2>1, <3>1, <3>2 DEF Fresh
  <2> QED
    BY <2>1, <2>2, <2>3, BeginMoves
<1> QED
  BY <1>1, <1>2, <1>3 DEF Fresh

\* Which step makes which call.
LEMMA CallMoves ==
    ASSUME TypeOK, [Next]_vars, NEW x \in Ids
    PROVE  /\ calls'[x].connected = calls[x].connected
                \/ \E t \in IOThreads : CallConnected(t) /\ thread[t].x = x
           /\ calls'[x].packet = calls[x].packet
                \/ \E t \in IOThreads : CallPacket(t) /\ thread[t].x = x
           /\ calls'[x].disconnected = calls[x].disconnected
                \/ \E t \in IOThreads : CallDisconnected(t) /\ thread[t].x = x
<1> USE DEF history
<1>0. calls \in [Ids -> [connected : Nat, packet : Nat, disconnected : Nat]]
  BY DEF TypeOK
<1>1. CASE calls' = calls
  BY <1>1
<1>2. CASE \E t \in IOThreads : ThreadTask(t)
  <2>1. PICK t \in IOThreads : ThreadTask(t)
    BY <1>2
  <2>2. CASE CallConnected(t)
    <3>1. PICK y : y = thread[t].x
      OBVIOUS
    <3>2. calls' = [calls EXCEPT ![y].connected = @ + 1]
      BY <2>2, <3>1 DEF CallConnected
    <3> QED
      BY <1>0, <2>2, <3>1, <3>2
  <2>3. CASE CallPacket(t)
    <3>1. PICK y : y = thread[t].x
      OBVIOUS
    <3>2. calls' = [calls EXCEPT ![y].packet = @ + 1]
      BY <2>3, <3>1 DEF CallPacket
    <3> QED
      BY <1>0, <2>3, <3>1, <3>2
  <2>4. CASE CallDisconnected(t)
    <3>1. PICK y : y = thread[t].x
      OBVIOUS
    <3>2. calls' = [calls EXCEPT ![y].disconnected = @ + 1]
      BY <2>4, <3>1 DEF CallDisconnected
    <3> QED
      BY <1>0, <2>4, <3>1, <3>2
  <2>5. CASE ~(CallConnected(t) \/ CallPacket(t) \/ CallDisconnected(t))
    <3>1. calls' = calls
      BY <2>1, <2>5 DEF ThreadTask, GetQueuedCompletionStatus, GetAccept, GetData, GetEnd, GetSent, GetFailed,
           GetIgnored, Take, ConnectHanadler, Associate, CountIn, RecvHandler, Repost,
           DisconnectHandler, Close, Rearm, CountOut
    <3> QED
      BY <3>1
  <2> QED
    BY <2>2, <2>3, <2>4, <2>5
<1> QED
  BY <1>1, <1>2, ThreadMoves

LEMMA BegunStep ==
    ASSUME TypeOK, [Next]_vars, NEW x \in Ids, Alone(x, Reads), BegunOnce(x)
    PROVE  BegunOnce(x)'
<1>0. calls[x].connected \in Nat
  BY DEF TypeOK
<1>1. Fresh(x)' => Fresh(x)
  BY FreshGoes
<1>2. ASSUME NEW t \in IOThreads, Associate(t), Goto(t, "connected", thread[t].x), thread[t].x = x
      PROVE  BegunOnce(x)'
  <2>1. thread[t].pc = "associate" /\ UNCHANGED <<cq, acceptOn, created, calls>>
    BY <1>2 DEF Associate, sockets, history
  <2>2. Fresh(x) /\ Holds(t, x, Reads)
    BY <1>2, <2>1 DEF Fresh, Holds, Reads
  <2>3. calls'[x].connected = 0 /\ \A u \in IOThreads : ~Holds(u, x, {"connected"})
    BY <2>1, <2>2 DEF BegunOnce
  <2>4. thread'[t].pc = "connected" /\ \A u \in IOThreads \ {t} : thread'[u] = thread[u]
    <3>1. /\ thread'[t] = [pc |-> "connected", x |-> thread[t].x]
          /\ \A u \in IOThreads \ {t} : thread'[u] = thread[u]
      BY <1>2, GotoHolds
    <3> QED
      BY <3>1
  <2>5. /\ \A i \in DOMAIN cq : ~Carries(i, x)
        /\ x \notin acceptOn /\ ~(x > created)
        /\ \A u \in IOThreads \ {t} : ~Holds(u, x, Reads)
    BY <2>2 DEF Alone, Nowhere
  <2>6. ~Fresh(x)'
    BY <2>1, <2>4, <2>5 DEF Fresh, Carries, Holds, Reads
  <2>7. \A u \in IOThreads : Holds(u, x, {"connected"})' => u = t
    BY <2>3, <2>4 DEF Holds
  <2> QED
    BY <2>3, <2>6, <2>7 DEF BegunOnce
<1>3. ASSUME \A t \in IOThreads : ~(Associate(t) /\ Goto(t, "connected", thread[t].x) /\ thread[t].x = x)
      PROVE  BegunOnce(x)'
  <2>1. ASSUME NEW t \in IOThreads, Holds(t, x, {"connected"})'
        PROVE  thread'[t] = thread[t] /\ Holds(t, x, {"connected"})
    <3>1. thread'[t].pc = "connected" /\ thread'[t].x = x
      BY <2>1 DEF Holds
    <3>2. thread'[t] = thread[t] \/ (Associate(t) /\ Goto(t, "connected", thread[t].x))
      BY <3>1, BeginMoves
    <3>3. Goto(t, "connected", thread[t].x) => thread[t].x = x
      <4> SUFFICES ASSUME Goto(t, "connected", thread[t].x) PROVE thread[t].x = x
        OBVIOUS
      <4>1. thread'[t] = [pc |-> "connected", x |-> thread[t].x]
        BY GotoHolds
      <4> QED
        BY <3>1, <4>1
    <3>4. thread'[t] = thread[t]
      BY <1>3, <3>2, <3>3
    <3> QED
      BY <3>1, <3>4 DEF Holds
  <2>2. CASE \E t \in IOThreads : CallConnected(t) /\ thread[t].x = x
    <3>1. PICK t \in IOThreads : CallConnected(t) /\ thread[t].x = x
      BY <2>2
    <3>2. Holds(t, x, {"connected"}) /\ Goto(t, "count", x)
      BY <3>1 DEF CallConnected, Holds
    <3>3. ~Fresh(x) /\ calls[x].connected = 0 /\ \A u \in IOThreads : Holds(u, x, {"connected"}) => u = t
      BY <3>2 DEF BegunOnce
    <3>4. thread'[t].pc = "count"
      <4>1. thread'[t] = [pc |-> "count", x |-> x]
        BY <3>2, GotoHolds
      <4> QED
        BY <4>1
    <3>5. \A u \in IOThreads : ~Holds(u, x, {"connected"})'
      BY <2>1, <3>3, <3>4 DEF Holds
    <3>6. calls'[x].connected = 1
      <4>1. calls' = [calls EXCEPT ![x].connected = @ + 1]
        BY <3>1 DEF CallConnected
      <4> QED
        BY <3>3, <4>1 DEF TypeOK
    <3> QED
      BY <1>1, <3>3, <3>5, <3>6 DEF BegunOnce
  <2>3. CASE calls'[x].connected = calls[x].connected
    BY <1>1, <2>1, <2>3 DEF BegunOnce
  <2> QED
    BY <2>2, <2>3, CallMoves
<1> QED
  BY <1>2, <1>3

LEMMA SizesType ==
    ASSUME TypeOK
    PROVE  /\ IsFiniteSet(Begun) /\ Cardinality(Begun) \in Nat
           /\ \A pc \in Steps : IsFiniteSet(Doing(pc)) /\ Cardinality(Doing(pc)) \in Nat
           /\ clientSize \in Int /\ startSize \in Int
<1>1. IsFiniteSet(Ids) /\ IsFiniteSet(IOThreads)
  BY BoundsAssumption, FS_Interval DEF Ids, IOThreads
<1>2. Begun \subseteq Ids /\ \A pc \in Steps : Doing(pc) \subseteq IOThreads
  BY DEF Begun, Doing
<1>3. IsFiniteSet(Begun) /\ \A pc \in Steps : IsFiniteSet(Doing(pc))
  BY <1>1, <1>2, FS_Subset
<1> QED
  BY <1>3, FS_CardinalityType, SizesAssumption DEF TypeOK

\* The threads at one step, when thread t goes from a to b.
LEMMA DoingMoves ==
    ASSUME TypeOK, NEW t \in IOThreads, NEW a, NEW b, NEW y, Goto(t, b, y), thread[t].pc = a, a # b
    PROVE  /\ Doing(b)' = Doing(b) \cup {t} /\ t \notin Doing(b)
           /\ Doing(a)' = Doing(a) \ {t} /\ t \in Doing(a)
           /\ \A pc : pc # b /\ pc # a => Doing(pc)' = Doing(pc)
<1>1. /\ thread'[t] = [pc |-> b, x |-> y]
      /\ \A u \in IOThreads \ {t} : thread'[u] = thread[u]
  BY GotoHolds
<1>2. thread'[t].pc = b
  BY <1>1
<1>3. Doing(b)' = Doing(b) \cup {t} /\ t \notin Doing(b)
  BY <1>1, <1>2 DEF Doing
<1>4. Doing(a)' = Doing(a) \ {t} /\ t \in Doing(a)
  BY <1>1, <1>2 DEF Doing
<1>5. \A pc : pc # b /\ pc # a => Doing(pc)' = Doing(pc)
  BY <1>1, <1>2 DEF Doing
<1> QED
  BY <1>3, <1>4, <1>5

\* A step that neither makes one of the two calls nor counts one.
LEMMA SizeQuiet ==
    ASSUME TypeOK, [Next]_vars, SizeKept,
           \A t \in IOThreads : ~CallConnected(t) /\ ~CountIn(t) /\ ~CallDisconnected(t) /\ ~CountOut(t)
    PROVE  SizeKept'
<1>1. Begun' = Begun /\ Ended' = Ended
  <2>1. \A x \in Ids : calls'[x].connected = calls[x].connected /\ calls'[x].disconnected = calls[x].disconnected
    BY CallMoves
  <2>2. Begun' = Begun
    BY <2>1 DEF Begun
  <2>3. \A e \in Ids \X Nat : calls'[e[1]].disconnected = calls[e[1]].disconnected
    BY <2>1
  <2>4. Ended' = Ended
    BY <2>3 DEF Ended
  <2> QED
    BY <2>2, <2>4
<1>2. /\ clientSize' = clientSize
      /\ \A t \in IOThreads : (thread'[t].pc = "count" <=> thread[t].pc = "count")
                              /\ (thread'[t].pc = "uncount" <=> thread[t].pc = "uncount")
  <2>1. CASE UNCHANGED <<thread, calls, clientSize>>
    BY <2>1
  <2>2. CASE \E t \in IOThreads : ThreadTask(t)
    <3>1. PICK t \in IOThreads : ThreadTask(t)
      BY <2>2
    <3>2. CASE GetQueuedCompletionStatus(t)
      <4>1. PICK pc \in {"associate", "packet", "close", "get"} : Take(t, pc)
        BY <3>2 DEF GetQueuedCompletionStatus, GetAccept, GetData, GetEnd, GetSent, GetFailed, GetIgnored
      <4>2. /\ thread[t].pc = "get" /\ thread'[t].pc = pc
            /\ \A u \in IOThreads \ {t} : thread'[u] = thread[u]
            /\ clientSize' = clientSize
        BY <4>1 DEF Take, TypeOK, Idle
      <4> QED
        BY <4>2
    <3>3. CASE Associate(t) \/ CallPacket(t) \/ Repost(t) \/ Close(t) \/ Rearm(t)
      <4>1. PICK pc, y : Goto(t, pc, y) /\ pc \notin {"count", "uncount"}
                         /\ thread[t].pc \notin {"count", "uncount"} /\ clientSize' = clientSize
        BY <3>3 DEF Associate, CallPacket, Repost, Close, Rearm
      <4>2. /\ thread'[t] = [pc |-> pc, x |-> y]
            /\ \A u \in IOThreads \ {t} : thread'[u] = thread[u]
        BY <4>1, GotoHolds
      <4>3. thread'[t].pc = pc
        BY <4>2
      <4> QED
        BY <4>1, <4>2, <4>3
    <3> QED
      BY <3>1, <3>2, <3>3 DEF ThreadTask, ConnectHanadler, RecvHandler, DisconnectHandler
  <2> QED
    BY <2>1, <2>2, ThreadMoves
<1>3. Doing("count")' = Doing("count") /\ Doing("uncount")' = Doing("uncount")
  BY <1>2 DEF Doing
<1> QED
  BY <1>1, <1>2, <1>3, StartKept DEF SizeKept

LEMMA SizeStep ==
    ASSUME TypeOK, [Next]_vars, SizeKept, \A x \in Ids : BegunOnce(x)
    PROVE  SizeKept'
<1> DEFINE B == Cardinality(Begun)
           E == Cardinality(Ended)
           C == Cardinality(Doing("count"))
           U == Cardinality(Doing("uncount"))
<1>0. /\ IsFiniteSet(Begun) /\ IsFiniteSet(Ended) /\ IsFiniteSet(Doing("count")) /\ IsFiniteSet(Doing("uncount"))
      /\ B \in Nat /\ E \in Nat /\ C \in Nat /\ U \in Nat
      /\ clientSize - startSize = B - C - (E - U)
      /\ clientSize \in Int /\ startSize \in Int /\ startSize' = startSize
  BY SizesType, FS_CardinalityType, StartKept DEF SizeKept, Steps
<1>9. calls \in [Ids -> [connected : Nat, packet : Nat, disconnected : Nat]]
  BY DEF TypeOK
<1>1. ASSUME NEW t \in IOThreads, CallConnected(t) PROVE SizeKept'
  <2>1. PICK x : x = thread[t].x
    OBVIOUS
  <2>2. /\ thread[t].pc = "connected" /\ calls' = [calls EXCEPT ![x].connected = @ + 1]
        /\ Goto(t, "count", x) /\ clientSize' = clientSize
    BY <1>1, <2>1 DEF CallConnected
  <2>3. x \in Ids /\ calls[x].connected = 0
    BY <2>1, <2>2, BusyThread DEF BegunOnce, Holds
  <2>4. Doing("count")' = Doing("count") \cup {t} /\ t \notin Doing("count") /\ Doing("uncount")' = Doing("uncount")
    BY <2>2, DoingMoves
  <2>5. /\ calls'[x].connected = 1
        /\ \A y \in Ids : y # x => calls'[y].connected = calls[y].connected
        /\ \A y \in Ids : calls'[y].disconnected = calls[y].disconnected
    BY <1>9, <2>2, <2>3
  <2>6. Begun' = Begun \cup {x} /\ x \notin Begun
    BY <2>3, <2>5 DEF Begun
  <2>7. Ended' = Ended
    <3>1. \A e \in Ids \X Nat : calls'[e[1]].disconnected = calls[e[1]].disconnected
      BY <2>5
    <3> QED
      BY <3>1 DEF Ended
  <2>8. Cardinality(Begun') = B + 1 /\ Cardinality(Doing("count")') = C + 1
    BY <1>0, <2>4, <2>6, FS_AddElement
  <2> QED
    BY <1>0, <2>2, <2>4, <2>7, <2>8 DEF SizeKept
<1>2. ASSUME NEW t \in IOThreads, CountIn(t) PROVE SizeKept'
  <2>1. /\ thread[t].pc = "count" /\ clientSize' = clientSize + 1 /\ Goto(t, "get", 0) /\ calls' = calls
    BY <1>2 DEF CountIn, history
  <2>2. Doing("count")' = Doing("count") \ {t} /\ t \in Doing("count") /\ Doing("uncount")' = Doing("uncount")
    BY <2>1, DoingMoves
  <2>3. Cardinality(Doing("count")') = C - 1
    BY <1>0, <2>2, FS_RemoveElement
  <2>4. Begun' = Begun /\ Ended' = Ended
    BY <2>1 DEF Begun, Ended
  <2> QED
    <3>1. clientSize' - startSize' = B - (C - 1) - (E - U)
      <4> HIDE DEF B, C, E, U
      <4> QED
        BY <1>0, <2>1
    <3> QED
      BY <1>0, <2>2, <2>3, <2>4, <3>1 DEF SizeKept
<1>3. ASSUME NEW t \in IOThreads, CallDisconnected(t) PROVE SizeKept'
  <2>1. PICK x : x = thread[t].x
    OBVIOUS
  <2>2. /\ thread[t].pc = "disconnected" /\ calls' = [calls EXCEPT ![x].disconnected = @ + 1]
        /\ Goto(t, "uncount", x) /\ clientSize' = clientSize
    BY <1>3, <2>1 DEF CallDisconnected
  <2>3. x \in Ids
    BY <2>1, <2>2, BusyThread
  <2>4. Doing("uncount")' = Doing("uncount") \cup {t} /\ t \notin Doing("uncount") /\ Doing("count")' = Doing("count")
    BY <2>2, DoingMoves
  <2>5. PICK d \in Nat : d = calls[x].disconnected + 1
    BY <1>9, <2>3
  <2>6. /\ calls'[x].disconnected = d /\ d # 0 /\ d - 1 = calls[x].disconnected
        /\ \A y \in Ids : y # x => calls'[y].disconnected = calls[y].disconnected
        /\ \A y \in Ids : calls'[y].connected = calls[y].connected
    BY <1>9, <2>2, <2>3, <2>5
  <2>7. Begun' = Begun
    BY <2>6 DEF Begun
  <2>8. Ended' = Ended \cup {<<x, d>>} /\ <<x, d>> \notin Ended
    <3>1. \A e \in Ids \X Nat : e[2] # 0 /\ e[2] <= calls'[e[1]].disconnected
             <=> (e[2] # 0 /\ e[2] <= calls[e[1]].disconnected) \/ e = <<x, d>>
      <4> TAKE e \in Ids \X Nat
      <4>1. CASE e[1] # x
        BY <2>6, <4>1
      <4>2. CASE e[1] = x
        BY <2>5, <2>6, <4>2
      <4> QED
        BY <4>1, <4>2
    <3>2. <<x, d>> \in Ids \X Nat /\ ~(d <= calls[x].disconnected)
      BY <1>9, <2>3, <2>5
    <3> QED
      BY <3>1, <3>2 DEF Ended
  <2>9. Cardinality(Doing("uncount")') = U + 1
    BY <1>0, <2>4, FS_AddElement
  <2>10. IsFiniteSet(Ended') /\ Cardinality(Ended') = E + 1
    BY <1>0, <2>8, FS_AddElement
  <2> QED
    BY <1>0, <2>2, <2>4, <2>7, <2>9, <2>10 DEF SizeKept
<1>4. ASSUME NEW t \in IOThreads, CountOut(t) PROVE SizeKept'
  <2>1. /\ thread[t].pc = "uncount" /\ clientSize' = clientSize - 1 /\ Goto(t, "get", 0) /\ calls' = calls
    BY <1>4 DEF CountOut, history
  <2>2. Doing("uncount")' = Doing("uncount") \ {t} /\ t \in Doing("uncount") /\ Doing("count")' = Doing("count")
    BY <2>1, DoingMoves
  <2>3. Cardinality(Doing("uncount")') = U - 1
    BY <1>0, <2>2, FS_RemoveElement
  <2>4. Begun' = Begun /\ Ended' = Ended
    BY <2>1 DEF Begun, Ended
  <2> QED
    <3>1. clientSize' - startSize' = B - C - (E - (U - 1))
      <4> HIDE DEF B, C, E, U
      <4> QED
        BY <1>0, <2>1
    <3> QED
      BY <1>0, <2>2, <2>3, <2>4, <3>1 DEF SizeKept
<1>5. CASE \A t \in IOThreads : ~CallConnected(t) /\ ~CountIn(t) /\ ~CallDisconnected(t) /\ ~CountOut(t)
  BY <1>5, SizeQuiet
<1> QED
  BY <1>1, <1>2, <1>3, <1>4, <1>5

LEMMA SizeInit == Init => SizeInv
<1> SUFFICES ASSUME Init PROVE SizeInv
  OBVIOUS
<1>1. SerialInv
  BY SerialInit
<1>2. /\ \A x \in Ids : calls[x].connected = 0 /\ calls[x].disconnected = 0
      /\ \A t \in IOThreads : thread[t].pc = "get"
      /\ clientSize = startSize /\ startSize \in Int
  BY SizesAssumption DEF Init, Idle
<1>3. \A x \in Ids : BegunOnce(x)
  BY <1>2 DEF BegunOnce, Holds
<1>4. Begun = {} /\ Doing("count") = {} /\ Doing("uncount") = {}
  BY <1>2 DEF Begun, Doing
<1>5. Ended = {}
  <2>1. \A e \in Ids \X Nat : ~(e[2] # 0 /\ e[2] <= calls[e[1]].disconnected)
    BY <1>2
  <2> QED
    BY <2>1 DEF Ended
<1>6. SizeKept
  <2>1. Cardinality({}) = 0 /\ IsFiniteSet({})
    BY FS_EmptySet
  <2>2. clientSize - startSize = 0 - 0 - (0 - 0)
    BY <1>2
  <2> QED
    BY <1>4, <1>5, <2>1, <2>2 DEF SizeKept
<1> QED
  BY <1>1, <1>3, <1>6 DEF SizeInv

\* When no thread is between a call and its count, and no end came alone.
LEMMA SizeImplies == SizeInv => ClientSizeMatches
<1> SUFFICES ASSUME SizeInv, \A t \in IOThreads : thread[t] = Idle,
                    \A x \in Ids : calls[x].disconnected <= calls[x].connected
             PROVE  clientSize - startSize =
                      Cardinality({x \in Ids : calls[x].connected > calls[x].disconnected})
  BY DEF ClientSizeMatches
<1> DEFINE Open == {x \in Ids : calls[x].connected > calls[x].disconnected}
           Over == {x \in Ids : calls[x].disconnected > 0}
<1>0. /\ TypeOK /\ SizeKept
      /\ \A x \in Ids : /\ calls[x].connected \in Nat /\ calls[x].disconnected \in Nat
                        /\ calls[x].connected <= 1 /\ calls[x].disconnected <= calls[x].connected
  BY DEF SizeInv, SerialInv, BegunOnce, TypeOK
<1>1. Doing("count") = {} /\ Doing("uncount") = {}
  BY DEF Doing, Idle
<1>2. Begun = Open \cup Over /\ Open \cap Over = {}
  BY <1>0 DEF Begun
<1>3. ExistsBijection(Over, Ended)
  <2>1. \A x \in Over : x \in Ids /\ <<x, 1>> \in Ended
    <3> SUFFICES ASSUME NEW x \in Over PROVE x \in Ids /\ <<x, 1>> \in Ended
      OBVIOUS
    <3>1. x \in Ids /\ 1 <= calls[x].disconnected
      BY <1>0
    <3>2. <<x, 1>> \in Ids \X Nat
      BY <3>1
    <3> QED
      BY <3>1, <3>2 DEF Ended
  <2>2. \A e \in Ended : e[1] \in Over /\ e = <<e[1], 1>>
    <3> SUFFICES ASSUME NEW e \in Ended PROVE e[1] \in Over /\ e = <<e[1], 1>>
      OBVIOUS
    <3>1. e \in Ids \X Nat /\ e[2] # 0 /\ e[2] <= calls[e[1]].disconnected
      BY DEF Ended
    <3>2. e = <<e[1], e[2]>> /\ e[1] \in Ids /\ e[2] \in Nat
      BY <3>1
    <3>3. e[2] = 1 /\ calls[e[1]].disconnected > 0
      BY <1>0, <3>1, <3>2
    <3> QED
      BY <3>2, <3>3
  <2> HIDE DEF Over
  <2> DEFINE f == [x \in Over |-> <<x, 1>>]
  <2>3. f \in [Over -> Ended] /\ \A x \in Over : f[x] = <<x, 1>>
    BY <2>1
  <2>4. f \in Injection(Over, Ended)
    BY <2>3 DEF Injection, IsInjective
  <2>5. f \in Surjection(Over, Ended)
    BY <2>2, <2>3 DEF Surjection
  <2> QED
    BY <2>4, <2>5 DEF ExistsBijection, Bijection
<1>4. Open \subseteq Begun /\ Over \subseteq Begun
  BY <1>2
<1> HIDE DEF Open, Over
<1>5. IsFiniteSet(Begun)
  BY <1>0, SizesType
<1>6. IsFiniteSet(Open) /\ IsFiniteSet(Over)
  BY <1>4, <1>5, FS_Subset
<1>7. Cardinality(Open) \in Nat /\ Cardinality(Over) \in Nat
  BY <1>6, FS_CardinalityType
<1>8. Cardinality(Ended) = Cardinality(Over)
  BY <1>3, <1>6, FS_Bijection
<1>9. Cardinality(Begun) = Cardinality(Open) + Cardinality(Over)
  <2>1. Cardinality(Open \cup Over) = Cardinality(Open) + Cardinality(Over) - Cardinality(Open \cap Over)
    BY <1>6, FS_Union
  <2>2. Cardinality(Open \cap Over) = 0
    BY <1>2, FS_EmptySet, Zenon
  <2>3. Cardinality(Begun) = Cardinality(Open \cup Over)
    BY <1>2, Zenon
  <2> QED
    BY <1>7, <2>1, <2>2, <2>3
<1>10. clientSize - startSize = Cardinality(Begun) - 0 - (Cardinality(Ended) - 0)
  BY <1>0, <1>1, FS_EmptySet DEF SizeKept
<1>11. clientSize - startSize = Cardinality(Open)
  BY <1>7, <1>8, <1>9, <1>10
<1> QED
  BY <1>11 DEF Open

\* GetClientSize: for any IO threads, peers and sends, whenever no thread is in a
\* handler and no end was reported without its beginning, _clientSize is what it
\* started from plus the connections that are open (DokeviServer.cpp:201, 236).
THEOREM SizeMatches == Spec => []ClientSizeMatches
<1>1. SizeInv /\ [Next]_vars => SizeInv'
  <2> SUFFICES ASSUME SizeInv, [Next]_vars PROVE SizeInv'
    OBVIOUS
  <2>1. SerialInv' /\ TypeOK /\ \A x \in Ids : Alone(x, Reads) /\ BegunOnce(x)
    BY SerialStep DEF SizeInv, SerialInv
  <2>2. \A x \in Ids : BegunOnce(x)'
    BY <2>1, BegunStep
  <2>3. SizeKept'
    BY <2>1, SizeStep DEF SizeInv
  <2> QED
    BY <2>1, <2>2, <2>3 DEF SizeInv
<1> QED
  BY SizeInit, <1>1, SizeImplies, PTL DEF Spec

-----------------------------------------------------------------------------
(* One IO thread: each connection is a session                             *)

\* Only the threads that Run started do anything.
Started == \A t \in IOThreads : thread[t].pc # "get" => t <= running

\* A receive of x is pending, or its completion waits.
Pending(x) == recvOn[x] # 0 \/ \E i \in DOMAIN cq : cq[i].op = "RECV" /\ cq[i].x = x

\* With one IO thread: ConnectedHandler runs before the first packet is taken
\* from the queue, and an end is reported to a connection that had none.
InTurn(x) ==
    /\ Pending(x) => calls[x].connected > 0 \/ \E t \in IOThreads : Holds(t, x, {"connected"})
    /\ \A t \in IOThreads : Holds(t, x, {"packet", "repost"}) => calls[x].connected > 0
    /\ \A t \in IOThreads :
         Holds(t, x, {"connected", "close", "arm", "disconnected"}) => calls[x].disconnected = 0

TurnInv ==
    /\ SerialInv /\ OwnInv /\ Started
    /\ \A x \in Ids : BegunOnce(x)
    /\ running <= 1 /\ sent = {} => \A x \in Ids : InTurn(x)

\* A thread moves by its own steps.
LEMMA OwnMoves ==
    ASSUME TypeOK, [Next]_vars, NEW t \in IOThreads
    PROVE  thread'[t] = thread[t] \/ ThreadTask(t)
<1>1. CASE UNCHANGED <<thread, calls, clientSize>>
  BY <1>1
<1>2. CASE \E u \in IOThreads : ThreadTask(u)
  <2>1. PICK u \in IOThreads : ThreadTask(u)
    BY <1>2
  <2>2. \E pc, y : Goto(u, pc, y) \/ Take(u, pc)
    BY <2>1 DEF ThreadTask, GetQueuedCompletionStatus, GetAccept, GetData, GetEnd, GetSent, GetFailed,
         GetIgnored, ConnectHanadler, Associate, CallConnected, CountIn, RecvHandler, CallPacket,
         Repost, DisconnectHandler, Close, Rearm, CallDisconnected, CountOut
  <2>3. u # t => thread'[t] = thread[t]
    BY <2>2 DEF Goto, Take, TypeOK
  <2> QED
    BY <2>1, <2>3
<1> QED
  BY <1>1, <1>2, ThreadMoves

\* Run starts the threads once; the application's sends are remembered.
LEMMA StartMoves ==
    ASSUME TypeOK, [Next]_vars
    PROVE  /\ running' = running \/ (running = 0 /\ UNCHANGED thread)
           /\ sent' = {} => sent = {}
<1> USE DEF system, sockets, ops, history
<1>1. ASSUME NEW x \in Ids, AppSend(x) \/ PeerCloses(x) \/ PeerResets(x) \/ DataArrives(x) \/ Completions(x)
      PROVE  running' = running /\ (sent' = {} => sent = {})
  BY <1>1 DEF AppSend, PeerCloses, PeerResets, DataArrives, Completions, AcceptCancelled, EofArrives,
       RecvFails, RecvCompletes, SendCompletes
<1>2. ASSUME NEW t \in IOThreads, ThreadTask(t) PROVE running' = running /\ sent' = sent
  BY <1>2 DEF ThreadTask, GetQueuedCompletionStatus, GetAccept, GetData, GetEnd, GetSent, GetFailed,
       GetIgnored, Take, ConnectHanadler, Associate, CallConnected, CountIn, RecvHandler, CallPacket,
       Repost, DisconnectHandler, Close, Rearm, CallDisconnected, CountOut
<1>3. ClientConnects \/ ClientAborts \/ Arm \/ UNCHANGED vars => running' = running /\ sent' = sent
  BY DEF ClientConnects, ClientAborts, Arm, vars
<1>4. Run => running = 0 /\ UNCHANGED thread /\ sent' = sent
  BY DEF Run
<1> QED
  BY <1>1, <1>2, <1>3, <1>4 DEF Next

LEMMA StartedStep ==
    ASSUME TypeOK, [Next]_vars, Started
    PROVE  Started'
<1> SUFFICES ASSUME NEW t \in IOThreads, thread'[t].pc # "get" PROVE t <= running'
  BY DEF Started
<1>1. t \in Nat /\ t # 0 /\ running \in Nat
  BY BoundsAssumption DEF IOThreads, TypeOK
<1>2. CASE running' = running
  <2>1. thread[t].pc # "get" => t <= running
    BY DEF Started
  <2>2. CASE thread'[t] = thread[t]
    BY <1>2, <2>1, <2>2
  <2>3. CASE ThreadTask(t) /\ thread[t].pc = "get"
    <3>1. \E pc : Take(t, pc)
      BY <2>3 DEF ThreadTask, GetQueuedCompletionStatus, GetAccept, GetData, GetEnd, GetSent, GetFailed,
           GetIgnored, ConnectHanadler, Associate, CallConnected, CountIn, RecvHandler, CallPacket,
           Repost, DisconnectHandler, Close, Rearm, CallDisconnected, CountOut
    <3> QED
      BY <1>2, <3>1 DEF Take
  <2> QED
    BY <1>2, <2>1, <2>2, <2>3, OwnMoves
<1>3. CASE running = 0 /\ UNCHANGED thread
  BY <1>1, <1>3 DEF Started
<1> QED
  BY <1>2, <1>3, StartMoves

\* Where a pending receive comes from.
LEMMA PendingMoves ==
    ASSUME TypeOK, [Next]_vars, NEW x \in Ids, Pending(x)'
    PROVE  \/ Pending(x)
           \/ \E t \in IOThreads : thread[t].x = x /\ (Repost(t) \/ (Associate(t) /\ Goto(t, "connected", x)))
<1> USE DEF system, sockets, ops, history
<1>1. ASSUME UNCHANGED <<recvOn, cq>> PROVE Pending(x)
  BY <1>1 DEF Pending
<1>2. ASSUME NEW op \in {"ACCEPT", "RECV", "SEND"}, NEW y \in Ids,
             NEW res \in {"ok", "zero", "err64", "other"}, Complete(op, y, res),
             recvOn' = recvOn \/ recvOn' = [recvOn EXCEPT ![y] = 0],
             op = "RECV" => recvOn[y] # 0
      PROVE  Pending(x)
  <2> DEFINE c == [op |-> op, x |-> y, res |-> res]
  <2>1. cq \in Seq(Completion) /\ c \in Completion /\ cq' = Append(cq, c) /\ c.op = op /\ c.x = y
    BY <1>2 DEF TypeOK, Completion, Complete
  <2> HIDE DEF c
  <2>2. \A j \in DOMAIN cq' : (j \in DOMAIN cq /\ cq'[j] = cq[j]) \/ cq'[j] = c
    BY <2>1, AppendAt
  <2>3. recvOn'[x] # 0 => recvOn[x] # 0
    BY <1>2 DEF TypeOK
  <2> QED
    BY <1>2, <2>1, <2>2, <2>3 DEF Pending
<1>3. ASSUME NEW t \in IOThreads, NEW pc, Take(t, pc) PROVE Pending(x)
  <2>1. cq # <<>> /\ cq' = Tail(cq) /\ cq \in Seq(Completion) /\ recvOn' = recvOn
    BY <1>3 DEF Take, TypeOK
  <2>2. \A j \in DOMAIN cq' : j + 1 \in DOMAIN cq /\ cq'[j] = cq[j + 1]
    BY <2>1, TailAt, Zenon
  <2> QED
    BY <2>1, <2>2 DEF Pending
<1>4. CASE ClientConnects \/ ClientAborts
  <2>1. PICK y \in Ids, res \in {"ok", "err64"} : Complete("ACCEPT", y, res)
    BY <1>4, ListeningType, MinInSet DEF ClientConnects, ClientAborts
  <2>2. recvOn' = recvOn
    BY <1>4 DEF ClientConnects, ClientAborts
  <2> QED
    BY <1>2, <2>1, <2>2
<1>5. ASSUME NEW y \in Ids, AcceptCancelled(y) PROVE Pending(x)
  BY <1>2, <1>5 DEF AcceptCancelled
<1>6. ASSUME NEW y \in Ids, DataArrives(y) \/ EofArrives(y) \/ RecvFails(y) PROVE Pending(x)
  <2>1. PICK res \in {"ok", "zero", "err64", "other"} :
          Complete("RECV", y, res) /\ recvOn[y] # 0 /\ recvOn' = [recvOn EXCEPT ![y] = 0]
    BY <1>6, ErrorsAssumption DEF DataArrives, EofArrives, RecvFails, RecvCompletes
  <2> QED
    BY <1>2, <2>1
<1>7. ASSUME NEW y \in Ids, SendCompletes(y) PROVE Pending(x)
  <2>1. PICK res \in {"ok", "zero", "err64", "other"} : Complete("SEND", y, res) /\ recvOn' = recvOn
    BY <1>7, ErrorsAssumption DEF SendCompletes
  <2> QED
    BY <1>2, <2>1
<1>8. ASSUME NEW t \in IOThreads, GetQueuedCompletionStatus(t) PROVE Pending(x)
  BY <1>3, <1>8 DEF GetQueuedCompletionStatus, GetAccept, GetData, GetEnd, GetSent, GetFailed, GetIgnored
<1>9. ASSUME NEW t \in IOThreads,
             \/ CallConnected(t) \/ CountIn(t) \/ CallPacket(t) \/ Close(t) \/ Rearm(t)
             \/ CallDisconnected(t) \/ CountOut(t)
      PROVE  Pending(x)
  BY <1>1, <1>9 DEF CallConnected, CountIn, CallPacket, Close, Rearm, CallDisconnected, CountOut
<1>10. ASSUME NEW t \in IOThreads, Associate(t) \/ Repost(t), ~Pending(x)
       PROVE  thread[t].x = x /\ (Repost(t) \/ (Associate(t) /\ Goto(t, "connected", x)))
  <2>1. PICK y : y = thread[t].x
    OBVIOUS
  <2>2. y \in Ids /\ cq' = cq
    BY <1>10, <2>1, BusyThread DEF Associate, Repost
  <2>3. recvOn' # recvOn
    BY <1>1, <1>10, <2>2
  <2>4. PostRecv(y) /\ (Repost(t) \/ (Associate(t) /\ Goto(t, "connected", y)))
    BY <1>10, <2>1, <2>3 DEF Associate, Repost
  <2>5. x # y => recvOn'[x] = recvOn[x]
    BY <2>2, <2>4 DEF PostRecv, TypeOK
  <2>6. x = y
    BY <1>10, <2>2, <2>5 DEF Pending
  <2> QED
    BY <2>1, <2>4, <2>6
<1>11. ASSUME NEW y \in Ids, AppSend(y) \/ PeerCloses(y) \/ PeerResets(y) PROVE Pending(x)
  BY <1>1, <1>11 DEF AppSend, PeerCloses, PeerResets
<1>12. Arm \/ Run \/ UNCHANGED vars => Pending(x)
  BY <1>1 DEF Arm, Run, vars
<1> QED
  BY <1>4, <1>5, <1>6, <1>7, <1>8, <1>9, <1>10, <1>11, <1>12
  DEF Next, ThreadTask, ConnectHanadler, RecvHandler, DisconnectHandler, Completions

\* The only thread, when it takes a completion, leaves no other busy.
LEMMA OneThread ==
    ASSUME TypeOK, Started, running <= 1, NEW t \in IOThreads, NEW u \in IOThreads,
           thread[t].pc # "get", thread[u].pc # "get" \/ u <= running
    PROVE  t = u
<1>1. t \in Nat /\ t # 0 /\ u \in Nat /\ u # 0 /\ running \in Nat
  BY BoundsAssumption DEF IOThreads, TypeOK
<1>2. t <= running /\ u <= running
  BY DEF Started
<1> QED
  BY <1>1, <1>2

\* The object and the right of a completion that is taken.
LEMMA TakenFrom ==
    ASSUME TypeOK, NEW t \in IOThreads, NEW pc, Take(t, pc), pc # "get"
    PROVE  /\ thread[t].pc = "get" /\ t <= running /\ thread'[t].pc = pc
           /\ thread'[t].x = Head(cq).x
           /\ 1 \in DOMAIN cq /\ Head(cq) = cq[1] /\ Head(cq) \in Completion
           /\ UNCHANGED <<calls, sent, running>>
<1>1. cq # <<>> /\ thread[t] = Idle /\ t <= running
      /\ thread'[t] = [pc |-> pc, x |-> Head(cq).x]
      /\ UNCHANGED <<calls, sent, running>>
  BY DEF Take, TypeOK, system, history
<1>2. 1 \in DOMAIN cq /\ Head(cq) = cq[1] /\ Head(cq) \in Completion
  BY <1>1, HeadType
<1> QED
  BY <1>1, <1>2 DEF Idle

\* The calls of one object: they only grow.
LEMMA CallsGrow ==
    ASSUME TypeOK, [Next]_vars, NEW x \in Ids
    PROVE  /\ calls[x].connected \in Nat /\ calls'[x].connected \in Nat
           /\ calls[x].disconnected \in Nat
           /\ calls[x].connected > 0 => calls'[x].connected > 0
           /\ \A t \in IOThreads : CallConnected(t) /\ thread[t].x = x => calls'[x].connected > 0
<1>1. calls \in [Ids -> [connected : Nat, packet : Nat, disconnected : Nat]]
  BY DEF TypeOK
<1>2. calls' \in [Ids -> [connected : Nat, packet : Nat, disconnected : Nat]]
  BY TypeStep DEF TypeOK
<1>3. ASSUME NEW t \in IOThreads, CallConnected(t), thread[t].x = x PROVE calls'[x].connected > 0
  <2>1. calls' = [calls EXCEPT ![x].connected = @ + 1]
    BY <1>3 DEF CallConnected
  <2>2. calls'[x].connected = calls[x].connected + 1 /\ calls[x].connected \in Nat
    BY <1>1, <2>1
  <2> QED
    BY <2>2
<1>4. calls[x].connected > 0 => calls'[x].connected > 0
  BY <1>3, CallMoves
<1> QED
  BY <1>1, <1>2, <1>3, <1>4

LEMMA TurnStep ==
    ASSUME TypeOK, OwnAll, Started, running <= 1, [Next]_vars, NEW x \in Ids, InTurn(x),
           running' <= 1
    PROVE  InTurn(x)'
<1>0. TypeOK' /\ Started'
  BY TypeStep, StartedStep
<1>1. NoSends /\ Own(x)
  BY DEF OwnAll
<1>2. ASSUME NEW t \in IOThreads, NEW pc, NEW y, Goto(t, pc, y)
      PROVE  thread'[t].pc = pc /\ thread'[t].x = y
  <2>1. thread'[t] = [pc |-> pc, x |-> y]
    BY <1>2, GotoHolds
  <2> QED
    BY <2>1
<1>3. Live(x, Takes) => calls[x].disconnected = 0
  BY <1>1, CallsGrow DEF Own
<1>4. Pending(x)' => calls'[x].connected > 0 \/ \E t \in IOThreads : Holds(t, x, {"connected"})'
  <2> SUFFICES ASSUME Pending(x)' PROVE calls'[x].connected > 0 \/ \E t \in IOThreads : Holds(t, x, {"connected"})'
    OBVIOUS
  <2>1. CASE Pending(x)
    <3>1. CASE calls[x].connected > 0
      BY <3>1, CallsGrow
    <3>2. CASE \E t \in IOThreads : Holds(t, x, {"connected"})
      <4>1. PICK t \in IOThreads : thread[t].x = x /\ thread[t].pc = "connected"
        BY <3>2 DEF Holds
      <4>2. CASE thread'[t] = thread[t]
        BY <4>1, <4>2 DEF Holds
      <4>3. CASE ThreadTask(t)
        <5>1. CallConnected(t)
          BY <4>1, <4>3 DEF ThreadTask, GetQueuedCompletionStatus, GetAccept, GetData, GetEnd, GetSent,
               GetFailed, GetIgnored, Take, Idle, ConnectHanadler, Associate, CountIn, RecvHandler,
               CallPacket, Repost, DisconnectHandler, Close, Rearm, CallDisconnected, CountOut
        <5> QED
          BY <4>1, <5>1, CallsGrow
      <4> QED
        BY <4>2, <4>3, OwnMoves
    <3> QED
      BY <2>1, <3>1, <3>2 DEF InTurn
  <2>2. ASSUME NEW t \in IOThreads, thread[t].x = x, Repost(t) PROVE calls'[x].connected > 0
    <3>1. Holds(t, x, {"packet", "repost"})
      BY <2>2 DEF Repost, Holds
    <3> QED
      BY <3>1, CallsGrow DEF InTurn
  <2>3. ASSUME NEW t \in IOThreads, Goto(t, "connected", x) PROVE Holds(t, x, {"connected"})'
    BY <1>2, <2>3 DEF Holds
  <2> QED
    BY <2>1, <2>2, <2>3, PendingMoves
<1>5. ASSUME NEW t \in IOThreads, Holds(t, x, {"packet", "repost"})' PROVE calls'[x].connected > 0
  <2>0. thread'[t].x = x /\ thread'[t].pc \in {"packet", "repost"}
    BY <1>5 DEF Holds
  <2>1. CASE thread'[t] = thread[t]
    BY <2>0, <2>1, CallsGrow DEF InTurn, Holds
  <2>2. CASE GetQueuedCompletionStatus(t)
    <3>1. PICK pc : Take(t, pc) /\ (pc = "packet" => Head(cq).op = "RECV")
                    /\ pc \in {"packet", "associate", "close", "get"}
      BY <2>2 DEF GetQueuedCompletionStatus, GetAccept, GetData, GetEnd, GetSent, GetFailed, GetIgnored
    <3>2. thread'[t].pc = pc
      BY <3>1 DEF Take, TypeOK
    <3>3. pc = "packet"
      BY <2>0, <3>1, <3>2
    <3>4. thread[t].pc = "get" /\ t <= running /\ Pending(x)
      BY <2>0, <3>1, <3>3, TakenFrom DEF Pending
    <3>5. \A u \in IOThreads : ~Holds(u, x, {"connected"})
      BY <3>4, OneThread DEF Holds
    <3> QED
      BY <3>4, <3>5, CallsGrow DEF InTurn
  <2>3. CASE CallPacket(t)
    <3>1. Goto(t, "repost", thread[t].x) /\ thread[t].pc = "packet"
      BY <2>3 DEF CallPacket
    <3>2. thread[t].x = x
      BY <1>2, <2>0, <3>1
    <3> QED
      BY <3>1, <3>2, CallsGrow DEF InTurn, Holds
  <2>4. CASE \/ ConnectHanadler(t) \/ Repost(t) \/ DisconnectHandler(t)
    <3>1. \E pc, y : Goto(t, pc, y) /\ pc \notin {"packet", "repost"}
      BY <2>4 DEF ConnectHanadler, Associate, CallConnected, CountIn, Repost, DisconnectHandler, Close,
           Rearm, CallDisconnected, CountOut
    <3> QED
      BY <1>2, <2>0, <3>1
  <2> QED
    BY <2>1, <2>2, <2>3, <2>4, OwnMoves DEF ThreadTask, RecvHandler
<1>6. ASSUME NEW t \in IOThreads, Holds(t, x, {"connected", "close", "arm", "disconnected"})'
      PROVE  calls'[x].disconnected = 0
  <2>0. thread'[t].x = x /\ thread'[t].pc \in {"connected", "close", "arm", "disconnected"}
    BY <1>6 DEF Holds
  <2>1. calls[x].disconnected = 0
    <3>1. CASE thread'[t] = thread[t]
      BY <2>0, <3>1 DEF InTurn, Holds
    <3>2. CASE GetQueuedCompletionStatus(t)
      <4>1. PICK pc \in {"packet", "associate", "close", "get"} : Take(t, pc)
        BY <3>2 DEF GetQueuedCompletionStatus, GetAccept, GetData, GetEnd, GetSent, GetFailed, GetIgnored
      <4>2. thread'[t].pc = pc
        BY <4>1 DEF Take, TypeOK
      <4>3. 1 \in DOMAIN cq /\ cq[1].x = x /\ cq[1] \in Completion
        BY <2>0, <4>1, <4>2, TakenFrom
      <4>4. Carries(1, x)
        BY <1>1, <4>3 DEF NoSends, Completion, Carries
      <4> QED
        BY <1>3, <4>3, <4>4 DEF Live, Nowhere
    <3>3. CASE Associate(t)
      <4>1. thread[t].pc = "associate"
            /\ (Goto(t, "get", 0) \/ Goto(t, "connected", thread[t].x))
        BY <3>3 DEF Associate
      <4>2. thread[t].x = x
        BY <1>2, <2>0, <4>1
      <4> QED
        BY <1>3, <4>1, <4>2 DEF Live, Nowhere, Holds, Takes, Reads
    <3>4. CASE Close(t) \/ Rearm(t)
      <4>1. thread[t].pc \in {"close", "arm"} /\ \E pc : Goto(t, pc, thread[t].x)
        BY <3>4 DEF Close, Rearm
      <4>2. thread[t].x = x
        BY <1>2, <2>0, <4>1
      <4> QED
        BY <4>1, <4>2 DEF InTurn, Holds
    <3>5. CASE CallConnected(t) \/ CountIn(t) \/ RecvHandler(t) \/ CallDisconnected(t) \/ CountOut(t)
      <4>1. \E pc, y : Goto(t, pc, y) /\ pc \notin {"connected", "close", "arm", "disconnected"}
        BY <3>5 DEF CallConnected, CountIn, RecvHandler, CallPacket, Repost, CallDisconnected, CountOut
      <4> QED
        BY <1>2, <2>0, <4>1
    <3> QED
      BY <3>1, <3>2, <3>3, <3>4, <3>5, OwnMoves DEF ThreadTask, ConnectHanadler, DisconnectHandler
  <2>2. ASSUME NEW u \in IOThreads, CallDisconnected(u) PROVE FALSE
    <3>1. Goto(u, "uncount", thread[u].x)
      BY <2>2 DEF CallDisconnected
    <3>2. thread'[u].pc = "uncount"
      BY <1>2, <3>1
    <3>3. t <= running' /\ u <= running'
      BY <1>0, <2>0, <3>2 DEF Started
    <3>4. t = u
      BY <1>0, <3>3, BoundsAssumption DEF TypeOK, IOThreads
    <3> QED
      BY <2>0, <3>2, <3>4
  <2> QED
    BY <2>1, <2>2, CallMoves
<1> QED
  BY <1>4, <1>5, <1>6 DEF InTurn

LEMMA TurnInit == Init => TurnInv
<1> SUFFICES ASSUME Init PROVE TurnInv
  OBVIOUS
<1>1. SizeInv /\ OwnInv
  BY SizeInit, OwnInit
<1>2. /\ DOMAIN cq = {} /\ \A t \in IOThreads : thread[t].pc = "get"
      /\ \A x \in Ids : recvOn[x] = 0
  BY DEF Init, Idle
<1>3. Started /\ \A x \in Ids : InTurn(x)
  BY <1>2 DEF Started, InTurn, Pending, Holds
<1> QED
  BY <1>1, <1>3 DEF TurnInv, SizeInv

LEMMA TurnInvStep == TurnInv /\ [Next]_vars => TurnInv'
<1> SUFFICES ASSUME TurnInv, [Next]_vars PROVE TurnInv'
  OBVIOUS
<1>1. TypeOK /\ SerialInv' /\ OwnInv' /\ Started'
  BY SerialStep, OwnStep, StartedStep DEF TurnInv, SerialInv
<1>2. \A x \in Ids : BegunOnce(x)'
  BY <1>1, BegunStep DEF TurnInv, SerialInv
<1>3. ASSUME running' <= 1, sent' = {}, NEW x \in Ids PROVE InTurn(x)'
  <2>1. running <= 1 /\ sent = {}
    BY <1>1, <1>3, StartMoves
  <2>2. OwnAll /\ InTurn(x)
    BY <2>1 DEF TurnInv, OwnInv, OwnAll
  <2> QED
    BY <1>1, <1>3, <2>1, <2>2, TurnStep DEF TurnInv
<1> QED
  BY <1>1, <1>2, <1>3 DEF TurnInv

\* What the application knows of connection x.
StateOf(x) ==
    IF calls[x].connected = 0 THEN "new"
    ELSE IF calls[x].disconnected > 0 THEN "over" ELSE "open"

\* Every step is a call of the session, or none.
LEMMA SessionStep ==
    ASSUME TurnInv, [Next]_vars, running <= 1, sent = {}
    PROVE  [Session!Next]_(Session!vars)
<1> DEFINE st == [x \in Ids |-> StateOf(x)]
           pk == [x \in Ids |-> calls[x].packet]
<1>0. /\ TypeOK /\ OwnAll /\ Started
      /\ \A x \in Ids : BegunOnce(x) /\ InTurn(x)
      /\ calls \in [Ids -> [connected : Nat, packet : Nat, disconnected : Nat]]
  BY DEF TurnInv, SerialInv, OwnInv, OwnAll, TypeOK
<1>1. ASSUME NEW t \in IOThreads, CallConnected(t) PROVE Session!Next
  <2>1. PICK x : x = thread[t].x
    OBVIOUS
  <2>2. thread[t].pc = "connected" /\ calls' = [calls EXCEPT ![x].connected = @ + 1]
    BY <1>1, <2>1 DEF CallConnected
  <2>3. x \in Ids /\ Holds(t, x, {"connected"})
    BY <1>0, <2>1, <2>2, BusyThread DEF Holds
  <2>4. calls[x].connected = 0 /\ calls[x].disconnected = 0
    BY <1>0, <2>3 DEF BegunOnce, InTurn, Holds
  <2>5. /\ calls'[x].connected = 1 /\ calls'[x].disconnected = 0
        /\ \A y \in Ids : y # x => calls'[y] = calls[y]
        /\ \A y \in Ids : calls'[y].packet = calls[y].packet
    BY <1>0, <2>2, <2>3, <2>4
  <2>6. StateOf(x) = "new" /\ \A y \in Ids : StateOf(y)' = IF y = x THEN "open" ELSE StateOf(y)
    BY <2>3, <2>4, <2>5 DEF StateOf
  <2>7. st[x] = "new" /\ st' = [st EXCEPT ![x] = "open"] /\ pk' = pk
    BY <2>3, <2>5, <2>6
  <2>8. Session!Connected(x)
    BY <2>7 DEF Session!Connected, StateOf
  <2> QED
    BY <2>3, <2>8 DEF Session!Next
<1>2. ASSUME NEW t \in IOThreads, CallPacket(t) PROVE Session!Next
  <2>1. PICK x : x = thread[t].x
    OBVIOUS
  <2>2. thread[t].pc = "packet" /\ calls' = [calls EXCEPT ![x].packet = @ + 1]
    BY <1>2, <2>1 DEF CallPacket
  <2>3. x \in Ids /\ Holds(t, x, {"packet", "repost"}) /\ Live(x, Takes)
    BY <1>0, <2>1, <2>2, BusyThread DEF Holds, Live, Nowhere, Takes, Reads
  <2>4. calls[x].connected > 0 /\ ~(calls[x].disconnected > 0)
    <3>1. resets[x] = 0
      BY <1>0, <2>3, LiveReaches DEF OwnAll
    <3> QED
      BY <1>0, <2>3, <3>1 DEF InTurn, OwnAll, Own
  <2>5. /\ \A y \in Ids : calls'[y].connected = calls[y].connected /\ calls'[y].disconnected = calls[y].disconnected
        /\ calls'[x].packet = calls[x].packet + 1
        /\ \A y \in Ids : y # x => calls'[y].packet = calls[y].packet
    BY <1>0, <2>2, <2>3
  <2>6. StateOf(x) = "open" /\ \A y \in Ids : StateOf(y)' = StateOf(y)
    BY <1>0, <2>3, <2>4, <2>5 DEF StateOf
  <2>7. st[x] = "open" /\ st' = st
    BY <2>3, <2>6
  <2>8. pk' = [pk EXCEPT ![x] = @ + 1]
    BY <2>3, <2>5
  <2>9. Session!Packet(x)
    BY <2>7, <2>8 DEF Session!Packet, StateOf
  <2> QED
    BY <2>3, <2>9 DEF Session!Next
<1>3. ASSUME NEW t \in IOThreads, CallDisconnected(t) PROVE [Session!Next]_(Session!vars)
  <2>1. PICK x : x = thread[t].x
    OBVIOUS
  <2>2. thread[t].pc = "disconnected" /\ calls' = [calls EXCEPT ![x].disconnected = @ + 1]
    BY <1>3, <2>1 DEF CallDisconnected
  <2>3. x \in Ids /\ Holds(t, x, {"connected", "close", "arm", "disconnected"})
    BY <1>0, <2>1, <2>2, BusyThread DEF Holds
  <2>4. calls[x].disconnected = 0
    BY <1>0, <2>3 DEF InTurn
  <2>5. /\ \A y \in Ids : calls'[y].connected = calls[y].connected /\ calls'[y].packet = calls[y].packet
        /\ calls'[x].disconnected = 1
        /\ \A y \in Ids : y # x => calls'[y].disconnected = calls[y].disconnected
    BY <1>0, <2>2, <2>3, <2>4
  <2>6. CASE calls[x].connected = 0
    <3>1. \A y \in Ids : StateOf(y)' = StateOf(y)
      BY <2>5, <2>6 DEF StateOf
    <3>2. st' = st /\ pk' = pk
      BY <2>5, <3>1
    <3> QED
      BY <3>2 DEF Session!vars, StateOf
  <2>7. CASE calls[x].connected # 0
    <3>1. StateOf(x) = "open" /\ \A y \in Ids : StateOf(y)' = IF y = x THEN "over" ELSE StateOf(y)
      BY <2>3, <2>4, <2>5, <2>7 DEF StateOf
    <3>2. st[x] = "open" /\ st' = [st EXCEPT ![x] = "over"] /\ pk' = pk
      BY <2>3, <2>5, <3>1
    <3>3. Session!Disconnected(x)
      BY <3>2 DEF Session!Disconnected, StateOf
    <3> QED
      BY <2>3, <3>3 DEF Session!Next
  <2> QED
    BY <2>6, <2>7
<1>4. CASE \A t \in IOThreads : ~CallConnected(t) /\ ~CallPacket(t) /\ ~CallDisconnected(t)
  <2>1. \A x \in Ids : /\ calls'[x].connected = calls[x].connected
                       /\ calls'[x].packet = calls[x].packet
                       /\ calls'[x].disconnected = calls[x].disconnected
    BY <1>0, <1>4, CallMoves
  <2>2. \A x \in Ids : StateOf(x)' = StateOf(x)
    BY <2>1 DEF StateOf
  <2>3. st' = st /\ pk' = pk
    BY <2>1, <2>2
  <2> QED
    BY <2>3 DEF Session!vars, StateOf
<1> QED
  BY <1>1, <1>2, <1>3, <1>4

\* With one IO thread, and until the application sends, what the handlers of a
\* NetworkClient see implements ClientSession: ConnectedHandler once, packets, then
\* DisconnectedHandler once, whatever peers and kernel do.
THEOREM OneThreadSessions == Spec => SerialSessions
<1>1. Init => Session!Init
  <2> SUFFICES ASSUME Init PROVE Session!Init
    OBVIOUS
  <2>1. \A x \in Ids : calls[x].connected = 0 /\ calls[x].packet = 0
    BY DEF Init
  <2> QED
    BY <2>1 DEF Session!Init
<1>2. TurnInv /\ [Next]_vars =>
        [running <= 1 /\ sent = {} => [Session!Next]_(Session!vars)]_vars
  BY SessionStep
<1> QED
  BY TurnInit, TurnInvStep, <1>1, <1>2, PTL DEF Spec, SerialSessions
=============================================================================
