------------------------- MODULE NetworkClientProofs -------------------------
(***************************************************************************)
(* For any packets, buffer and calls: the types; that no receive thread    *)
(* outlives its client and which calls end the process; and that on a      *)
(* connection that began with an empty buffer no byte is lost or moved,    *)
(* and the client cuts the stream where the packets of a server begin      *)
(* whose headers count themselves.                                         *)
(*                                                                         *)
(* The argument about the stream goes over what is not handed over yet:    *)
(* it is the packets behind those handed over, so its first bytes are      *)
(* those of the next packet, header and all.                               *)
(***************************************************************************)
EXTENDS NetworkClient, SequenceTheorems, WellFoundedInduction, TLAPS

-----------------------------------------------------------------------------
(* The types                                                               *)

\* The bytes of a packet, with either kind of header.
LEMMA FrameType ==
    ASSUME counted \in BOOLEAN, NEW k \in 1 .. MaxFrames, NEW len \in Lens
    PROVE  Frame(k, len) \in Seq(Bytes)
<1>1. len \in Nat /\ HDR \in Nat /\ BUF \in Nat /\ 2 * HDR <= len /\ len <= BUF
  BY SizesAssumption, LensAssumption
<1>2. (IF counted THEN len ELSE len - HDR) \in 0 .. BUF
  BY <1>1
<1>3. \A i \in 1 .. len :
        [frame |-> k, at |-> i, size |-> IF counted THEN len ELSE len - HDR] \in Bytes
  BY <1>1, <1>2 DEF Bytes
<1> QED
  BY <1>1, <1>3 DEF Frame

\* recv gives no more than is on its way.
LEMMA SizeReadFits ==
    ASSUME TypeOK, NEW sizeRead \in ReceiveBytes
    PROVE  sizeRead \in 0 .. Len(stream) /\ sizeRead \in Nat
<1>1. CASE stream # <<>>
  <2>1. BUF \in Int /\ Len(stream) \in Int /\ sizeRead \in 1 .. Min({BUF, Len(stream)})
    BY <1>1, SizesAssumption DEF TypeOK, ReceiveBytes
  <2>2. \E m \in {BUF, Len(stream)} : Min({BUF, Len(stream)}) = m /\ m <= Len(stream)
    <3>1. CASE BUF <= Len(stream)
      <4>1. \A x \in {BUF, Len(stream)} :
              (\A y \in {BUF, Len(stream)} : x <= y) <=> x = BUF
        BY <2>1, <3>1
      <4>2. Min({BUF, Len(stream)}) = BUF
        BY <4>1 DEF Min
      <4> QED
        BY <3>1, <4>2
    <3>2. CASE Len(stream) < BUF
      <4>1. \A x \in {BUF, Len(stream)} :
              (\A y \in {BUF, Len(stream)} : x <= y) <=> x = Len(stream)
        BY <2>1, <3>2
      <4>2. Min({BUF, Len(stream)}) = Len(stream)
        BY <4>1 DEF Min
      <4> QED
        BY <2>1, <4>2
    <3> QED
      BY <2>1, <3>1, <3>2
  <2> QED
    BY <2>1, <2>2
<1>2. CASE stream = <<>>
  BY <1>2 DEF ReceiveBytes
<1> QED
  BY <1>1, <1>2

\* The start and the rest of a sequence.
LEMMA Cut ==
    ASSUME NEW S, NEW s \in Seq(S), NEW m \in 0 .. Len(s)
    PROVE  /\ SubSeq(s, 1, m) \in Seq(S) /\ Len(SubSeq(s, 1, m)) = m
           /\ \A i \in 1 .. m : SubSeq(s, 1, m)[i] = s[i]
           /\ SubSeq(s, m + 1, Len(s)) \in Seq(S)
           /\ Len(SubSeq(s, m + 1, Len(s))) = Len(s) - m
           /\ SubSeq(s, 1, m) \o SubSeq(s, m + 1, Len(s)) = s
<1>1. /\ SubSeq(s, 1, m) \in Seq(S) /\ Len(SubSeq(s, 1, m)) = m
      /\ \A i \in 1 .. m : SubSeq(s, 1, m)[i] = s[i]
      /\ SubSeq(s, m + 1, Len(s)) \in Seq(S)
      /\ Len(SubSeq(s, m + 1, Len(s))) = Len(s) - m
  OBVIOUS
<1>2. SubSeq(s, 1, m) \o SubSeq(s, m + 1, Len(s)) = SubSeq(s, 1, Len(s))
  <2>1. 1 \in 1 .. Len(s) + 1 /\ m \in 1 - 1 .. Len(s) /\ Len(s) \in m .. Len(s)
    OBVIOUS
  <2> QED
    BY <2>1, ConcatAdjacentSubSeq
<1> QED
  BY <1>1, <1>2, SubSeqFull

LEMMA TypeInit == Init => TypeOK
<1> SUFFICES ASSUME Init PROVE TypeOK
  OBVIOUS
<1>1. Len(<<>>) = 0 /\ <<>> \in Seq(Bytes) /\ <<>> \in Seq(Seq(Bytes))
  OBVIOUS
<1>2. BUF \in Nat /\ W \in Nat \ {0} /\ MaxConnects \in Nat /\ MaxSends \in Nat
  BY SizesAssumption
<1>3. packetLength \in 0 .. BUF /\ sendCount \in 0 .. W - 1 /\ bufferSize \in 0 .. BUF + 1
      /\ connects \in 0 .. MaxConnects /\ sends \in 0 .. MaxSends
  BY <1>2 DEF Init
<1>4. frames \in Seq(Seq(Bytes)) /\ stream \in Seq(Bytes) /\ handed \in Seq(Seq(Bytes))
  BY <1>1 DEF Init
<1>5. packetBuffer \in Seq(Bytes) /\ Len(packetBuffer) <= BUF
  BY <1>1, <1>2 DEF Init
<1> QED
  BY <1>3, <1>4, <1>5 DEF Init, TypeOK

\* The length read is one the header can hold.
LEMMA SizeType ==
    ASSUME NEW bytes \in Seq(Bytes), NEW known \in 0 .. BUF + 1, SizeFrom(known, bytes)
    PROVE  bufferSize' \in 0 .. BUF + 1 /\ thread' \in {"loop", "handle"}
<1>1. BUF \in Nat /\ HDR \in Nat \ {0}
  BY SizesAssumption
<1>2. ASSUME Len(bytes) >= HDR, bufferSize' \in HeaderOf(bytes) PROVE bufferSize' \in 0 .. BUF + 1
  <2>1. bytes[1] \in Bytes
    BY <1>1, <1>2
  <2>2. bytes[1].size \in 0 .. BUF + 1
    BY <1>1, <2>1 DEF Bytes
  <2> QED
    BY <1>2, <2>2 DEF HeaderOf
<1> QED
  BY <1>2 DEF SizeFrom

LEMMA TypeStep == TypeOK /\ [Next]_vars => TypeOK'
<1> SUFFICES ASSUME TypeOK, [Next]_vars PROVE TypeOK'
  OBVIOUS
<1>0. /\ BUF \in Nat /\ HDR \in Nat \ {0} /\ W \in Nat \ {0}
      /\ MaxFrames \in Nat /\ MaxConnects \in Nat /\ MaxSends \in Nat
  BY SizesAssumption
<1>1. Len(<<>>) = 0 /\ <<>> \in Seq(Bytes) /\ <<>> \in Seq(Seq(Bytes))
  OBVIOUS
<1>2. CASE Connect \/ ConnectFails
  <2>1. connects' \in 0 .. MaxConnects
    BY <1>0, <1>2 DEF Connect, ConnectFails, CanConnect, TypeOK
  <2>2. frames' = <<>> /\ stream' = <<>> /\ handed' = <<>> /\ conn' \in {"open", "broken"}
        /\ clean' \in BOOLEAN /\ disconnect' = FALSE /\ last' \in {"connected", "failed"}
        /\ (thread' = "loop" \/ thread' = thread)
        /\ UNCHANGED <<counted, packetBuffer, bufferSize, user, packetLength, sendCount, sends>>
    BY <1>2 DEF Connect, ConnectFails, sending, TypeOK
  <2> QED
    BY <1>1, <2>1, <2>2 DEF TypeOK
<1>3. CASE Disconnect \/ Wait \/ Destroy
  BY <1>3 DEF Disconnect, Wait, Destroy, JoinOr, server, buffer, sending, TypeOK
<1>4. CASE Join
  BY <1>4 DEF Join, server, buffer, sending, TypeOK
<1>5. ASSUME NEW inLength \in InLengths, SendPacket(inLength) PROVE TypeOK'
  <2>1. packetLength' \in 0 .. BUF /\ sendCount' \in 0 .. W - 1 /\ sends' \in 0 .. MaxSends
    BY <1>0, <1>5, InLengthsAssumption DEF SendPacket, TypeOK
  <2> QED
    BY <1>5, <2>1 DEF SendPacket, server, buffer, TypeOK
<1>6. ASSUME NEW n \in Int, Counted(n) PROVE TypeOK'
  <2>1. (sendCount + n) % W \in 0 .. W - 1
    BY <1>0 DEF TypeOK
  <2>2. user' \in {"idle", user} /\ packetLength' \in {0, packetLength}
        /\ sendCount' \in {0, (sendCount + n) % W}
        /\ UNCHANGED <<server, disconnect, thread, buffer, clean, last, sends, connects>>
    BY <1>6 DEF Counted
  <2>3. sendCount' \in 0 .. W - 1 /\ packetLength' \in 0 .. BUF
    BY <1>0, <2>1, <2>2 DEF TypeOK
  <2> QED
    BY <2>2, <2>3 DEF server, buffer, TypeOK
<1>7. CASE SendTakesAll \/ SendFails
  <2>1. packetLength \in Int /\ -1 \in Int
    BY <1>0 DEF TypeOK
  <2> QED
    BY <1>6, <1>7, <2>1 DEF SendTakesAll, SendFails
<1>8. CASE TestDisconnect \/ RecvFails \/ Return
  BY <1>8 DEF TestDisconnect, RecvFails, Return, server, buffer, sending, TypeOK
<1>9. CASE Handle
  <2>1. bufferSize \in 0 .. Len(packetBuffer) /\ packetBuffer \in Seq(Bytes) /\ Len(packetBuffer) <= BUF
    BY <1>0, <1>9 DEF Handle, Complete, TypeOK
  <2>2. /\ packetBuffer' = SubSeq(packetBuffer, bufferSize + 1, Len(packetBuffer))
        /\ handed' = IF clean THEN Append(handed, SubSeq(packetBuffer, 1, bufferSize)) ELSE handed
        /\ SizeFrom(0, packetBuffer')
        /\ UNCHANGED <<server, disconnect, clean, user, last, sending, connects>>
    BY <1>9 DEF Handle
  <2>3. packetBuffer' \in Seq(Bytes) /\ Len(packetBuffer') = Len(packetBuffer) - bufferSize
        /\ SubSeq(packetBuffer, 1, bufferSize) \in Seq(Bytes)
    BY <2>1, <2>2, Cut
  <2>4. Len(packetBuffer') <= BUF
    BY <1>0, <2>1, <2>3
  <2>5. handed' \in Seq(Seq(Bytes))
    <3> DEFINE p == SubSeq(packetBuffer, 1, bufferSize)
    <3>1. p \in Seq(Bytes) /\ handed' = IF clean THEN Append(handed, p) ELSE handed
      BY <2>2, <2>3
    <3> HIDE DEF p
    <3> QED
      BY <3>1 DEF TypeOK
  <2>6. bufferSize' \in 0 .. BUF + 1 /\ thread' \in {"loop", "handle"}
    <3>1. 0 \in 0 .. BUF + 1
      BY <1>0
    <3> QED
      BY <2>2, <2>3, <3>1, SizeType, Zenon
  <2> QED
    BY <2>2, <2>3, <2>4, <2>5, <2>6 DEF server, sending, TypeOK
<1>10. ASSUME NEW sizeRead \in ReceiveBytes, Recv(sizeRead) PROVE TypeOK'
  <2>1. sizeRead \in 0 .. Len(stream) /\ sizeRead \in Nat
    BY SizeReadFits
  <2>2. /\ packetBuffer' = packetBuffer \o SubSeq(stream, 1, sizeRead)
        /\ stream' = SubSeq(stream, sizeRead + 1, Len(stream))
        /\ SizeFrom(bufferSize, packetBuffer') /\ Len(packetBuffer) + sizeRead <= BUF
        /\ UNCHANGED <<counted, conn, frames, disconnect, handed, clean, user, last, sending, connects>>
    BY <1>10 DEF Recv
  <2>3. /\ SubSeq(stream, 1, sizeRead) \in Seq(Bytes) /\ Len(SubSeq(stream, 1, sizeRead)) = sizeRead
        /\ stream' \in Seq(Bytes)
    BY <2>1, <2>2, Cut DEF TypeOK
  <2>4. packetBuffer' \in Seq(Bytes) /\ Len(packetBuffer') = Len(packetBuffer) + sizeRead
    BY <2>2, <2>3, ConcatProperties DEF TypeOK
  <2>5. bufferSize' \in 0 .. BUF + 1 /\ thread' \in {"loop", "handle"}
    BY <2>2, <2>4, SizeType DEF TypeOK
  <2> QED
    BY <2>2, <2>3, <2>4, <2>5 DEF sending, TypeOK
<1>11. ASSUME NEW sizeRead \in ReceiveBytes, RecvOverflow(sizeRead) PROVE TypeOK'
  BY <1>11 DEF RecvOverflow, server, buffer, sending, TypeOK
<1>12. ASSUME NEW len \in Lens, ServerSends(len) PROVE TypeOK'
  <2> DEFINE frame == Frame(Len(frames) + 1, len)
  <2>1. /\ frames' = Append(frames, frame) /\ stream' = stream \o frame /\ Len(frames) < MaxFrames
        /\ UNCHANGED <<counted, conn, disconnect, thread, buffer, clean, user, last, sending, connects>>
    BY <1>12 DEF ServerSends
  <2>2. Len(frames) + 1 \in 1 .. MaxFrames
    BY <1>0, <2>1 DEF TypeOK
  <2>3. frame \in Seq(Bytes)
    BY <2>2, FrameType DEF TypeOK
  <2> HIDE DEF frame
  <2>4. frames' \in Seq(Seq(Bytes)) /\ stream' \in Seq(Bytes)
    BY <2>1, <2>3 DEF TypeOK
  <2> QED
    BY <2>1, <2>4 DEF buffer, sending, TypeOK
<1>13. CASE ServerCloses \/ ConnectionBreaks
  <2>1. /\ conn' \in {"eof", "broken"} /\ (stream' = stream \/ stream' = <<>>)
        /\ UNCHANGED <<counted, frames, disconnect, thread, packetBuffer, bufferSize, handed, clean,
                       user, last, packetLength, sendCount, sends, connects>>
    BY <1>13 DEF ServerCloses, ConnectionBreaks, buffer, sending
  <2>2. stream' \in Seq(Bytes)
    BY <1>1, <2>1 DEF TypeOK
  <2> QED
    BY <2>1, <2>2 DEF TypeOK
<1>14. CASE UNCHANGED vars
  BY <1>14 DEF vars, server, buffer, sending, TypeOK
<1> QED
  BY <1>2, <1>3, <1>4, <1>5, <1>7, <1>8, <1>9, <1>10, <1>11, <1>12, <1>13, <1>14
     DEF Next, Calls, Sending, RecvPacket, Network

\* TypeOK holds in every state, for any packets, sizes and bounds: what the
\* buffer holds never exceeds it in the states without an overflow.
THEOREM TypeCorrect == Spec => []TypeOK
  BY TypeInit, TypeStep, PTL DEF Spec

-----------------------------------------------------------------------------
(* The receive thread and the calls                                        *)

\* Who is in a join has a thread to join; a set _disconnect says that there is
\* none left, unless the call that set it is still joining; and what the last
\* call left.
CallInv ==
    /\ user \in {"idle", "sending", "waiting"} /\ disconnect => ~Joinable
    /\ Joining => Joinable
    /\ user \in {"disconnecting", "destroying"} => disconnect
    /\ last = "connected" => Joinable
    /\ last = "disconnected" => disconnect
    /\ EndsItsThread

LEMMA CallInit == Init => CallInv
  BY DEF Init, CallInv, EndsItsThread, Joining, Joinable

LEMMA CallStep == TypeOK /\ CallInv /\ [Next]_vars => CallInv'
<1> SUFFICES ASSUME TypeOK, CallInv, [Next]_vars PROVE CallInv'
  OBVIOUS
<1> USE DEF CallInv, EndsItsThread, Joining, Joinable
<1>1. CASE Connect \/ ConnectFails
  BY <1>1 DEF Connect, ConnectFails, CanConnect, Idle
<1>2. CASE Disconnect \/ Wait
  BY <1>2 DEF Disconnect, Wait, JoinOr, Idle, TypeOK
<1>3. CASE Destroy
  BY <1>3 DEF Destroy, JoinOr, Idle, TypeOK
<1>4. CASE Join
  BY <1>4 DEF Join
<1>5. CASE /\ UNCHANGED <<disconnect, last>>
           /\ user' = user \/ (user \in {"idle", "sending"} /\ user' \in {"idle", "sending"})
           /\ Joinable' = Joinable
  BY <1>5
<1>6. ASSUME NEW inLength \in InLengths, SendPacket(inLength) PROVE CallInv'
  BY <1>5, <1>6 DEF SendPacket, Idle
<1>7. CASE Sending
  BY <1>5, <1>7 DEF Sending, SendTakesAll, SendFails, Counted
<1>8. CASE RecvPacket
  <2>1. UNCHANGED <<disconnect, last, user>> /\ thread \in {"loop", "recv", "handle"}
        /\ thread' \in {"loop", "recv", "handle", "ended", "overflowed"}
    BY <1>8 DEF RecvPacket, TestDisconnect, RecvFails, Handle, Return, Recv, RecvOverflow, SizeFrom
  <2> QED
    BY <1>5, <2>1
<1>9. CASE Network
  BY <1>5, <1>9 DEF Network, ServerCloses, ConnectionBreaks, ServerSends
<1>10. CASE UNCHANGED vars
  BY <1>5, <1>10 DEF vars
<1> QED
  BY <1>1, <1>2, <1>3, <1>4, <1>6, <1>7, <1>8, <1>9, <1>10 DEF Next, Calls

\* EndsItsThread: no receive thread outlives its client, and calls end the
\* process only on a client that is not connected, the destructor only on one
\* whose last connection failed, was waited for, or was never made
\* (NetworkClient.cpp:10-18, 49-63).
THEOREM EndsThread == Spec => []EndsItsThread
<1>1. CallInv => EndsItsThread
  BY DEF CallInv
<1> QED
  BY <1>1, CallInit, CallStep, TypeCorrect, PTL DEF Spec

-----------------------------------------------------------------------------
(* Sequences of packets                                                    *)

\* A set of numbers has a least element.
LEMMA Least ==
    ASSUME NEW S \in SUBSET Nat, S # {}
    PROVE  \E n \in S : \A m \in S : n <= m
<1>1. PICK n \in S : \A m \in S : ~(<<m, n>> \in OpToRel(<, Nat))
  BY NatLessThanWellFounded, WFMin
<1>2. \A a, b \in Nat : a < b => <<a, b>> \in OpToRel(<, Nat)
  BY Zenon DEF OpToRel
<1>3. \A m \in S : ~(m < n)
  BY <1>1, <1>2, Zenon
<1> QED
  BY <1>3

\* Induction, for a set of numbers.
LEMMA Induction ==
    ASSUME NEW S, 0 \in S, \A n \in Nat : n \in S => n + 1 \in S
    PROVE  Nat \subseteq S
<1> SUFFICES ASSUME Nat \ S # {} PROVE FALSE
  OBVIOUS
<1>1. PICK n \in Nat \ S : \A m \in Nat \ S : n <= m
  BY Least
<1>2. n # 0 /\ n - 1 \in Nat /\ n - 1 \in S
  BY <1>1
<1>3. (n - 1) + 1 \in S
  BY <1>2
<1> QED
  BY <1>1, <1>3

\* f gathers the first n sequences of ss from the front.
Gathers(f, ss, n) == f = [i \in 1 .. n |-> IF i = 1 THEN ss[i] ELSE f[i - 1] \o ss[i]]

\* There is such a function, and one of a longer sequence agrees with it.
LEMMA GathersExists ==
    ASSUME NEW ss, NEW n \in Nat
    PROVE  \E f : Gathers(f, ss, n)
<1> DEFINE S == {k \in Nat : \E f : Gathers(f, ss, k)}
<1>1. 0 \in S
  <2>1. Gathers([i \in 1 .. 0 |-> 0], ss, 0)
    BY DEF Gathers
  <2> QED
    BY <2>1
<1>2. ASSUME NEW k \in Nat, k \in S PROVE k + 1 \in S
  <2>1. PICK f : Gathers(f, ss, k)
    BY <1>2
  <2> DEFINE g == [i \in 1 .. k + 1 |->
                      IF i <= k THEN f[i] ELSE IF i = 1 THEN ss[i] ELSE f[i - 1] \o ss[i]]
  <2>2. \A i \in 1 .. k : f[i] = IF i = 1 THEN ss[i] ELSE f[i - 1] \o ss[i]
    BY <2>1, Zenon DEF Gathers
  <2>3. \A i \in 1 .. k + 1 : g[i] = IF i = 1 THEN ss[i] ELSE g[i - 1] \o ss[i]
    BY <2>2
  <2>4. Gathers(g, ss, k + 1)
    <3>1. g = [i \in 1 .. k + 1 |-> g[i]]
      OBVIOUS
    <3> HIDE DEF g
    <3> QED
      BY <2>3, <3>1, Zenon DEF Gathers
  <2> QED
    BY <2>4
<1>3. Nat \subseteq S
  BY <1>1, <1>2, Induction
<1> QED
  BY <1>3

LEMMA GathersUnique ==
    ASSUME NEW ss, NEW tt, NEW f, NEW g, NEW m \in Nat, NEW n \in Nat,
           Gathers(f, ss, m), Gathers(g, tt, n), m <= n,
           \A i \in 1 .. m : ss[i] = tt[i]
    PROVE  \A i \in 1 .. m : f[i] = g[i]
<1> DEFINE S == {k \in Nat : k \in 1 .. m => f[k] = g[k]}
<1>1. /\ \A i \in 1 .. m : f[i] = IF i = 1 THEN ss[i] ELSE f[i - 1] \o ss[i]
      /\ \A i \in 1 .. n : g[i] = IF i = 1 THEN tt[i] ELSE g[i - 1] \o tt[i]
  BY Zenon DEF Gathers
<1>2. 0 \in S
  OBVIOUS
<1>3. ASSUME NEW k \in Nat, k \in S, k + 1 \in 1 .. m PROVE f[k + 1] = g[k + 1]
  <2>0. k + 1 \in 1 .. n
    BY <1>3
  <2>1. CASE k = 0
    BY <1>1, <1>3, <2>0, <2>1
  <2>2. CASE k # 0
    <3>1. f[k] = g[k] /\ ss[k + 1] = tt[k + 1] /\ (k + 1) - 1 = k /\ k + 1 # 1
      BY <1>3, <2>2
    <3>2. f[k + 1] = f[k] \o ss[k + 1] /\ g[k + 1] = g[k] \o tt[k + 1]
      BY <1>1, <1>3, <2>0, <3>1, Zenon
    <3> QED
      BY <3>1, <3>2
  <2> QED
    BY <2>1, <2>2
<1>4. \A k \in Nat : k \in S => k + 1 \in S
  BY <1>3
<1>5. Nat \subseteq S
  <2> HIDE DEF S
  <2> QED
    BY <1>2, <1>4, Induction
<1> QED
  BY <1>5

\* FlattenSeq of a sequence, by one of its sequences more.
LEMMA FlattenAppend ==
    ASSUME NEW B, NEW ss \in Seq(Seq(B)), NEW t \in Seq(B)
    PROVE  FlattenSeq(Append(ss, t)) = IF ss = <<>> THEN t ELSE FlattenSeq(ss) \o t
<1> DEFINE tt == Append(ss, t)
           n == Len(ss)
           f == CHOOSE f : Gathers(f, ss, n)
           g == CHOOSE g : Gathers(g, tt, n + 1)
<1>1. FlattenSeq(ss) = IF Len(ss) = 0 THEN ss ELSE f[n]
  BY DEF FlattenSeq, Gathers
<1>2. n \in Nat /\ Len(tt) = n + 1 /\ tt[n + 1] = t /\ \A i \in 1 .. n : tt[i] = ss[i]
  OBVIOUS
<1>3. FlattenSeq(tt) = g[n + 1]
  <2>1. FlattenSeq(tt) = IF Len(tt) = 0 THEN tt ELSE (CHOOSE h : Gathers(h, tt, Len(tt)))[Len(tt)]
    BY DEF FlattenSeq, Gathers
  <2> QED
    BY <1>2, <2>1
<1> HIDE DEF tt
<1>4. Gathers(f, ss, n) /\ Gathers(g, tt, n + 1)
  <2>1. n \in Nat /\ n + 1 \in Nat
    BY <1>2
  <2>2. \E h : Gathers(h, ss, n)
    BY <2>1, GathersExists, Zenon
  <2>3. \E h : Gathers(h, tt, n + 1)
    BY <2>1, GathersExists, Zenon
  <2> QED
    BY <2>2, <2>3, Zenon
<1> HIDE DEF f, g
<1>5. \A i \in 1 .. n : f[i] = g[i]
  <2>1. n \in Nat /\ n + 1 \in Nat /\ n <= n + 1 /\ \A i \in 1 .. n : ss[i] = tt[i]
    BY <1>2
  <2> HIDE DEF n
  <2> QED
    BY <1>4, <2>1, GathersUnique, SMT
<1>6. \A i \in 1 .. n + 1 : g[i] = IF i = 1 THEN tt[i] ELSE g[i - 1] \o tt[i]
  BY <1>4, Zenon DEF Gathers
<1>7. CASE n = 0
  BY <1>2, <1>3, <1>6, <1>7 DEF tt
<1>8. CASE n # 0
  <2>1. n + 1 \in 1 .. n + 1 /\ n + 1 # 1 /\ (n + 1) - 1 = n /\ n \in 1 .. n /\ ss # <<>>
    BY <1>2, <1>8
  <2>2. g[n + 1] = g[n] \o tt[n + 1]
    BY <1>6, <2>1, Zenon
  <2> QED
    BY <1>1, <1>2, <1>3, <1>5, <1>8, <2>1, <2>2 DEF tt
<1> QED
  BY <1>7, <1>8

\* Sequences of B put together are a sequence of B.
LEMMA FlattenType ==
    ASSUME NEW B, NEW ss \in Seq(Seq(B))
    PROVE  FlattenSeq(ss) \in Seq(B)
<1> DEFINE S == {k \in Nat : \A tt \in Seq(Seq(B)) : Len(tt) = k => FlattenSeq(tt) \in Seq(B)}
<1>1. 0 \in S
  <2>1. ASSUME NEW tt \in Seq(Seq(B)), Len(tt) = 0 PROVE FlattenSeq(tt) \in Seq(B)
    BY <2>1 DEF FlattenSeq
  <2> QED
    BY <2>1
<1>2. ASSUME NEW k \in Nat, k \in S PROVE k + 1 \in S
  <2>1. ASSUME NEW tt \in Seq(Seq(B)), Len(tt) = k + 1 PROVE FlattenSeq(tt) \in Seq(B)
    <3>1. PICK rr \in Seq(Seq(B)), t \in Seq(B) : tt = Append(rr, t) /\ Len(rr) = k
      <4> DEFINE rr == SubSeq(tt, 1, k)
      <4>1. rr \in Seq(Seq(B)) /\ tt[k + 1] \in Seq(B) /\ Len(rr) = k
        BY <2>1
      <4>2. tt = Append(rr, tt[k + 1])
        BY <2>1
      <4> QED
        BY <4>1, <4>2
    <3>2. FlattenSeq(rr) \in Seq(B)
      BY <1>2, <3>1
    <3>3. FlattenSeq(Append(rr, t)) = IF rr = <<>> THEN t ELSE FlattenSeq(rr) \o t
      BY <3>1, FlattenAppend
    <3> QED
      BY <3>1, <3>2, <3>3
  <2> QED
    BY <2>1
<1>3. Nat \subseteq S
  BY <1>1, <1>2, Induction
<1> QED
  BY <1>3

\* The same, the first sequence included.
LEMMA FlattenMore ==
    ASSUME NEW B, NEW ss \in Seq(Seq(B)), NEW t \in Seq(B)
    PROVE  FlattenSeq(Append(ss, t)) = FlattenSeq(ss) \o t
<1>1. CASE ss = <<>>
  <2>1. FlattenSeq(ss) = <<>>
    BY <1>1 DEF FlattenSeq
  <2>2. <<>> \o t = t
    OBVIOUS
  <2> QED
    BY <1>1, <2>1, <2>2, FlattenAppend
<1>2. CASE ss # <<>>
  BY <1>2, FlattenAppend
<1> QED
  BY <1>1, <1>2

\* The first packets of a sequence, and one more.
LEMMA OneMore ==
    ASSUME NEW S, NEW ss \in Seq(S), NEW n \in Nat, n + 1 <= Len(ss)
    PROVE  /\ SubSeq(ss, 1, n + 1) = Append(SubSeq(ss, 1, n), ss[n + 1])
           /\ SubSeq(ss, 1, n) \in Seq(S) /\ ss[n + 1] \in S
  OBVIOUS

\* Sequences put together, and what follows the same beginning.
LEMMA Regroup ==
    ASSUME NEW S
    PROVE  /\ \A a, b \in Seq(S) : a \o b \in Seq(S)
           /\ \A a, b, c \in Seq(S) : (a \o b) \o c = a \o (b \o c)
           /\ \A a, b, c \in Seq(S) : a \o b = a \o c => b = c
<1>1. \A a, b \in Seq(S) : a \o b \in Seq(S)
  OBVIOUS
<1>2. \A a, b, c \in Seq(S) : (a \o b) \o c = a \o (b \o c)
  BY ConcatAssociative
<1>3. \A a, b, c \in Seq(S) : a \o b = a \o c => b = c
  BY ConcatSimplifications, Zenon
<1> QED
  BY <1>1, <1>2, <1>3

\* The bytes of the first packets are the first bytes.
LEMMA FlattenStarts ==
    ASSUME NEW B, NEW ss \in Seq(Seq(B)), NEW e \in 0 .. Len(ss)
    PROVE  \E y \in Seq(B) : FlattenSeq(ss) = FlattenSeq(SubSeq(ss, 1, e)) \o y
<1> DEFINE x == FlattenSeq(SubSeq(ss, 1, e))
           Starts(k) == \E y \in Seq(B) : FlattenSeq(SubSeq(ss, 1, e + k)) = x \o y
           S == {k \in Nat : e + k <= Len(ss) => Starts(k)}
<1>0. e \in Nat /\ Len(ss) \in Nat /\ e <= Len(ss)
  OBVIOUS
<1>1. x \in Seq(B)
  <2>1. SubSeq(ss, 1, e) \in Seq(Seq(B))
    OBVIOUS
  <2> QED
    BY <2>1, FlattenType
<1> HIDE DEF x
<1>2. 0 \in S
  <2>1. x \o <<>> = x /\ <<>> \in Seq(B)
    BY <1>1, ConcatEmptySeq
  <2>2. e + 0 = e
    OBVIOUS
  <2> QED
    BY <2>1, <2>2 DEF x
<1>3. ASSUME NEW k \in Nat, k \in S, e + (k + 1) <= Len(ss) PROVE Starts(k + 1)
  <2>1. e + k \in Nat /\ (e + k) + 1 <= Len(ss) /\ e + k <= Len(ss) /\ e + (k + 1) = (e + k) + 1
    <3> HIDE DEF S, Starts
    <3> QED
      BY <1>0, <1>3
  <2> DEFINE n == e + k
             p == SubSeq(ss, 1, n)
             t == ss[n + 1]
  <2>2. PICK y \in Seq(B) : FlattenSeq(p) = x \o y
    BY <1>3, <2>1
  <2>3. SubSeq(ss, 1, n + 1) = Append(p, t) /\ p \in Seq(Seq(B)) /\ t \in Seq(B)
    <3>1. n \in Nat /\ n + 1 <= Len(ss)
      BY <2>1
    <3> HIDE DEF n
    <3> QED
      BY <3>1, OneMore
  <2> HIDE DEF p, t
  <2>4. FlattenSeq(Append(p, t)) = FlattenSeq(p) \o t
    BY <2>3, FlattenMore
  <2>5. (x \o y) \o t = x \o (y \o t) /\ y \o t \in Seq(B)
    <3>1. \A a, b, c \in Seq(B) : (a \o b) \o c = a \o (b \o c)
      BY Regroup, Zenon
    <3>2. \A a, b \in Seq(B) : a \o b \in Seq(B)
      BY Regroup, Zenon
    <3> QED
      BY <1>1, <2>3, <3>1, <3>2, Zenon
  <2> HIDE DEF n
  <2>6. FlattenSeq(SubSeq(ss, 1, n + 1)) = x \o (y \o t)
    BY <2>2, <2>3, <2>4, <2>5
  <2> QED
    BY <2>1, <2>5, <2>6 DEF n
<1>4. Nat \subseteq S
  <2>1. \A k \in Nat : k \in S => k + 1 \in S
    <3> HIDE DEF Starts
    <3> QED
      BY <1>3
  <2> HIDE DEF S
  <2> QED
    BY <1>2, <2>1, Induction
<1>5. Len(ss) - e \in S /\ e + (Len(ss) - e) = Len(ss)
  <2> HIDE DEF S
  <2> QED
    BY <1>0, <1>4
<1>6. Starts(Len(ss) - e)
  <2> HIDE DEF Starts
  <2> QED
    BY <1>0, <1>5
<1>7. SubSeq(ss, 1, Len(ss)) = ss
  BY SubSeqFull
<1> QED
  BY <1>5, <1>6, <1>7 DEF x

\* Behind the bytes of the first d packets comes the next packet, or nothing.
LEMMA NextOf ==
    ASSUME NEW B, NEW ss \in Seq(Seq(B)), NEW d \in 0 .. Len(ss), NEW x \in Seq(B),
           FlattenSeq(SubSeq(ss, 1, d)) \o x = FlattenSeq(ss)
    PROVE  /\ d = Len(ss) => x = <<>>
           /\ d < Len(ss) => \E y \in Seq(B) : x = ss[d + 1] \o y
<1> DEFINE a == FlattenSeq(SubSeq(ss, 1, d))
<1>0. a \in Seq(B) /\ d \in Nat
  <2> DEFINE p == SubSeq(ss, 1, d)
  <2>1. p \in Seq(Seq(B))
    OBVIOUS
  <2> HIDE DEF p
  <2>2. FlattenSeq(p) \in Seq(B)
    BY <2>1, FlattenType
  <2> QED
    BY <2>2 DEF p
<1>1. ASSUME d = Len(ss) PROVE x = <<>>
  <2>1. a = FlattenSeq(ss)
    BY <1>1, SubSeqFull
  <2> HIDE DEF a
  <2>2. a \o x = a
    BY <2>1 DEF a
  <2> QED
    BY <1>0, <2>2, ConcatEqualIffEmpty
<1>2. ASSUME d < Len(ss) PROVE \E y \in Seq(B) : x = ss[d + 1] \o y
  <2>1. /\ SubSeq(ss, 1, d + 1) = Append(SubSeq(ss, 1, d), ss[d + 1])
        /\ SubSeq(ss, 1, d) \in Seq(Seq(B)) /\ ss[d + 1] \in Seq(B)
    <3>1. d + 1 <= Len(ss)
      BY <1>2
    <3> QED
      BY <1>0, <3>1, OneMore
  <2> DEFINE p == SubSeq(ss, 1, d)
             t == ss[d + 1]
  <2> HIDE DEF p, t
  <2>2. FlattenSeq(SubSeq(ss, 1, d + 1)) = a \o t
    BY <2>1, FlattenMore DEF p, t
  <2>3. d + 1 \in 0 .. Len(ss)
    BY <1>2
  <2>4. PICK y \in Seq(B) : FlattenSeq(ss) = (a \o t) \o y
    BY <2>2, <2>3, FlattenStarts
  <2>5. a \o x = a \o (t \o y)
    <3> HIDE DEF a
    <3>0. t \in Seq(B)
      BY <2>1 DEF t
    <3>2. \A u, v, w \in Seq(B) : (u \o v) \o w = u \o (v \o w)
      BY Regroup, Zenon
    <3>1. (a \o t) \o y = a \o (t \o y)
      BY <1>0, <3>0, <3>2, Zenon
    <3> QED
      BY <2>4, <3>1 DEF a
  <2>6. t \o y \in Seq(B)
    BY <2>1, ConcatProperties DEF t
  <2> HIDE DEF a
  <2>7. x = t \o y
    <3>1. \A u, v, w \in Seq(B) : u \o v = u \o w => v = w
      BY Regroup, Zenon
    <3> QED
      BY <1>0, <2>5, <2>6, <3>1, Zenon
  <2> QED
    BY <2>7 DEF t
<1> QED
  BY <1>1, <1>2

-----------------------------------------------------------------------------
(* The stream                                                              *)

\* A packet whose header counts itself.
CountedFrame(k, len) == [i \in 1 .. len |-> [frame |-> k, at |-> i, size |-> len]]

FramesInv ==
    counted => \A k \in 1 .. Len(frames) : \E len \in Lens : frames[k] = CountedFrame(k, len)

\* The bytes b are buffered, t follows: together they are what is left of the
\* packets fs behind the first d.
Behind(b, t, d, fs) == FlattenSeq(SubSeq(fs, 1, d)) \o (b \o t) = FlattenSeq(fs)

\* What was handed over is the beginning of what was sent, and with what is
\* buffered and on its way, or was before the connection broke, it is all of it.
\* (After a Connect that failed there is nothing sent and no thread.)
StreamInv ==
    clean /\ counted =>
        /\ Len(handed) <= Len(frames) /\ handed = SubSeq(frames, 1, Len(handed))
        /\ \/ conn = "broken" /\ ~Joinable
           \/ \E tail \in Seq(Bytes) :
                 /\ conn # "broken" => tail = stream
                 /\ Behind(packetBuffer, tail, Len(handed), frames)

\* The length is read as soon as a header is there, and a complete packet is
\* not left waiting.
HeaderInv ==
    clean /\ counted /\ thread \in {"loop", "recv", "handle"} =>
        /\ bufferSize = IF Len(packetBuffer) >= HDR THEN packetBuffer[1].size ELSE 0
        /\ thread # "handle" /\ Len(packetBuffer) >= HDR => Len(packetBuffer) < packetBuffer[1].size
        /\ thread = "handle" => Len(packetBuffer) > HDR

CutInv == FramesInv /\ StreamInv /\ HeaderInv

\* The buffered bytes are those of the next packet, as far as it goes.
LEMMA FrontFrame ==
    ASSUME NEW fs \in Seq(Seq(Bytes)),
           \A k \in 1 .. Len(fs) : \E len \in Lens : fs[k] = CountedFrame(k, len),
           NEW d \in 0 .. Len(fs), NEW b \in Seq(Bytes), NEW t \in Seq(Bytes), b # <<>>,
           Behind(b, t, d, fs)
    PROVE  /\ d + 1 <= Len(fs)
           /\ \E len \in Lens :
                 /\ fs[d + 1] = CountedFrame(d + 1, len)
                 /\ \A i \in 1 .. Len(b) : i <= len => b[i] = [frame |-> d + 1, at |-> i, size |-> len]
<1> DEFINE x == b \o t
<1>1. /\ x \in Seq(Bytes) /\ Len(x) = Len(b) + Len(t) /\ Len(b) \in Nat /\ Len(t) \in Nat
      /\ \A i \in 1 .. Len(b) : x[i] = b[i]
  OBVIOUS
<1>2. x # <<>>
  BY <1>1
<1>3. FlattenSeq(SubSeq(fs, 1, d)) \o x = FlattenSeq(fs)
  BY DEF Behind
<1> HIDE DEF x
<1>4. /\ d = Len(fs) => x = <<>>
      /\ d < Len(fs) => \E y \in Seq(Bytes) : x = fs[d + 1] \o y
  <2> DEFINE B == Bytes
  <2>1. fs \in Seq(Seq(B)) /\ x \in Seq(B)
    BY <1>1
  <2> HIDE DEF B
  <2>2. /\ d = Len(fs) => x = <<>>
        /\ d < Len(fs) => \E y \in Seq(B) : x = fs[d + 1] \o y
    <3>1. \A ss \in Seq(Seq(B)) : \A e \in 0 .. Len(ss) : \A z \in Seq(B) :
            FlattenSeq(SubSeq(ss, 1, e)) \o z = FlattenSeq(ss) =>
                /\ e = Len(ss) => z = <<>>
                /\ e < Len(ss) => \E y \in Seq(B) : z = ss[e + 1] \o y
      BY NextOf, Zenon
    <3> QED
      BY <1>3, <2>1, <3>1, Zenon
  <2> QED
    BY <2>2 DEF B
<1>5. d + 1 <= Len(fs) /\ d + 1 \in 1 .. Len(fs) /\ d < Len(fs)
  BY <1>2, <1>4
<1>6. PICK y \in Seq(Bytes) : x = fs[d + 1] \o y
  BY <1>4, <1>5
<1>7. PICK len \in Lens : fs[d + 1] = CountedFrame(d + 1, len)
  BY <1>5
<1>8. len \in Nat /\ fs[d + 1] \in Seq(Bytes)
  BY <1>5, SizesAssumption
<1>9. Len(fs[d + 1]) = len /\ \A i \in 1 .. len : fs[d + 1][i] = [frame |-> d + 1, at |-> i, size |-> len]
  BY <1>7, <1>8 DEF CountedFrame
<1>10. ASSUME NEW i \in 1 .. Len(b), i <= len PROVE b[i] = [frame |-> d + 1, at |-> i, size |-> len]
  <2> DEFINE f == fs[d + 1]
  <2>1. i \in 1 .. len
    BY <1>8, <1>10
  <2>2. f \in Seq(Bytes) /\ Len(f) = len /\ f[i] = [frame |-> d + 1, at |-> i, size |-> len]
    BY <1>8, <1>9, <2>1
  <2> HIDE DEF f
  <2>3. (f \o y)[i] = f[i]
    BY <2>1, <2>2
  <2> QED
    BY <1>1, <1>6, <1>10, <2>2, <2>3 DEF f
<1> QED
  BY <1>5, <1>7, <1>10

\* The header at the front is read right.
LEMMA HeaderRead ==
    ASSUME NEW fs \in Seq(Seq(Bytes)),
           \A k \in 1 .. Len(fs) : \E len \in Lens : fs[k] = CountedFrame(k, len),
           NEW d \in 0 .. Len(fs), NEW b \in Seq(Bytes), NEW t \in Seq(Bytes),
           Behind(b, t, d, fs), Len(b) >= HDR
    PROVE  /\ HeaderOf(b) = {b[1].size} /\ b[1].size \in Nat /\ 2 * HDR <= b[1].size
           /\ d + 1 <= Len(fs) /\ fs[d + 1] = CountedFrame(d + 1, b[1].size)
           /\ \A i \in 1 .. Len(b) :
                 i <= b[1].size => b[i] = [frame |-> d + 1, at |-> i, size |-> b[1].size]
<1>1. HDR \in Nat \ {0} /\ Len(b) \in Nat /\ b # <<>> /\ 1 \in 1 .. Len(b)
  BY SizesAssumption
<1>2. PICK len \in Lens :
        /\ d + 1 <= Len(fs) /\ fs[d + 1] = CountedFrame(d + 1, len)
        /\ \A i \in 1 .. Len(b) : i <= len => b[i] = [frame |-> d + 1, at |-> i, size |-> len]
  BY <1>1, FrontFrame
<1>3. len \in Nat /\ 2 * HDR <= len
  BY SizesAssumption, LensAssumption
<1>4. b[1] = [frame |-> d + 1, at |-> 1, size |-> len]
  BY <1>1, <1>2, <1>3
<1>5. ASSUME NEW i \in 1 .. HDR PROVE b[i].frame = b[1].frame /\ b[i].at = i
  <2>1. i \in 1 .. Len(b) /\ i <= len
    BY <1>1, <1>3
  <2>2. b[i] = [frame |-> d + 1, at |-> i, size |-> len]
    BY <1>2, <2>1
  <2> QED
    BY <1>4, <2>2
<1>6. HeaderOf(b) = {b[1].size} /\ b[1].size = len
  BY <1>4, <1>5 DEF HeaderOf
<1> QED
  BY <1>2, <1>3, <1>6

\* After SizeFrom the length is that of the header at the front, if it is there.
LEMMA SizeRead ==
    ASSUME NEW fs \in Seq(Seq(Bytes)),
           \A k \in 1 .. Len(fs) : \E len \in Lens : fs[k] = CountedFrame(k, len),
           NEW d \in 0 .. Len(fs), NEW b \in Seq(Bytes), NEW t \in Seq(Bytes),
           Behind(b, t, d, fs),
           NEW known \in Nat, known # 0 => Len(b) >= HDR /\ known = b[1].size,
           SizeFrom(known, b)
    PROVE  /\ bufferSize' = IF Len(b) >= HDR THEN b[1].size ELSE 0
           /\ thread' # "handle" /\ Len(b) >= HDR => Len(b) < b[1].size
           /\ thread' = "handle" => Len(b) > HDR
<1>1. HDR \in Nat \ {0} /\ Len(b) \in Nat
  BY SizesAssumption
<1>2. Len(b) >= HDR => HeaderOf(b) = {b[1].size} /\ b[1].size \in Nat /\ 2 * HDR <= b[1].size
  BY HeaderRead
<1> QED
  BY <1>1, <1>2 DEF SizeFrom

LEMMA CutInit == Init => CutInv
  BY DEF Init, CutInv, FramesInv, StreamInv, HeaderInv

\* A connection begins.
LEMMA ConnectCut == ASSUME TypeOK, CutInv, Connect \/ ConnectFails PROVE CutInv'
<1>1. frames' = <<>> /\ handed' = <<>> /\ stream' = <<>> /\ Len(<<>>) = 0
  BY DEF Connect, ConnectFails
<1>2. FramesInv'
  BY <1>1 DEF FramesInv
<1>3. SubSeq(<<>>, 1, 0) = <<>>
  BY SubSeqEmpty
<1>4. CASE Connect
  <2>1. /\ conn' = "open" /\ UNCHANGED <<packetBuffer, bufferSize>>
        /\ clean' => packetBuffer = <<>> /\ bufferSize = 0
        /\ thread' = "loop"
    BY <1>4 DEF Connect
  <2>2. ASSUME packetBuffer = <<>> PROVE Behind(packetBuffer, <<>>, 0, <<>>)
    <3>1. FlattenSeq(<<>>) = <<>>
      BY DEF FlattenSeq
    <3>2. <<>> \o (<<>> \o <<>>) = <<>>
      OBVIOUS
    <3> QED
      BY <1>3, <2>2, <3>1, <3>2, Zenon DEF Behind
  <2>3. StreamInv'
    <3> SUFFICES ASSUME clean' PROVE StreamInv'
      BY DEF StreamInv
    <3>1. packetBuffer' = <<>> /\ Behind(packetBuffer', stream', Len(handed'), frames')
      BY <1>1, <2>1, <2>2
    <3>2. stream' \in Seq(Bytes) /\ Len(handed') <= Len(frames')
          /\ handed' = SubSeq(frames', 1, Len(handed'))
      BY <1>1, <1>3
    <3> QED
      BY <3>1, <3>2 DEF StreamInv
  <2>4. HeaderInv'
    BY <1>1, <2>1, SizesAssumption DEF HeaderInv
  <2> QED
    BY <1>2, <2>3, <2>4 DEF CutInv
<1>5. CASE ConnectFails
  <2>1. conn' = "broken" /\ ~Joinable' /\ thread' \notin {"loop", "recv", "handle"}
    BY <1>5 DEF ConnectFails, CanConnect, Joinable, TypeOK
  <2>2. StreamInv'
    BY <1>1, <1>3, <2>1 DEF StreamInv
  <2>3. HeaderInv'
    BY <2>1 DEF HeaderInv
  <2> QED
    BY <1>2, <2>2, <2>3 DEF CutInv
<1> QED
  BY <1>4, <1>5

LEMMA RecvCut ==
    ASSUME TypeOK, CutInv, NEW sizeRead \in ReceiveBytes, Recv(sizeRead)
    PROVE  CutInv'
<1> DEFINE got == SubSeq(stream, 1, sizeRead)
           left == SubSeq(stream, sizeRead + 1, Len(stream))
<1>1. /\ packetBuffer' = packetBuffer \o got /\ stream' = left
      /\ SizeFrom(bufferSize, packetBuffer') /\ thread = "recv" /\ conn # "broken"
      /\ UNCHANGED <<counted, conn, frames, handed, clean>>
  BY DEF Recv
<1>2. /\ packetBuffer \in Seq(Bytes) /\ stream \in Seq(Bytes) /\ frames \in Seq(Seq(Bytes))
      /\ Len(handed) \in Nat /\ bufferSize \in Nat
  BY SizesAssumption DEF TypeOK
<1>3. sizeRead \in 0 .. Len(stream)
  BY SizeReadFits
<1>4. got \in Seq(Bytes) /\ left \in Seq(Bytes) /\ got \o left = stream
  BY <1>2, <1>3, Cut
<1> HIDE DEF got, left
<1>5. /\ packetBuffer' \in Seq(Bytes) /\ Len(packetBuffer') = Len(packetBuffer) + Len(got)
      /\ \A i \in 1 .. Len(packetBuffer) : packetBuffer'[i] = packetBuffer[i]
      /\ Len(packetBuffer) \in Nat /\ Len(got) \in Nat
  BY <1>1, <1>2, <1>4
<1>6. FramesInv'
  BY <1>1 DEF CutInv, FramesInv
<1> SUFFICES ASSUME clean, counted PROVE StreamInv' /\ HeaderInv'
  BY <1>1, <1>6 DEF CutInv, StreamInv, HeaderInv
<1>7. /\ Len(handed) <= Len(frames) /\ handed = SubSeq(frames, 1, Len(handed))
      /\ Behind(packetBuffer, stream, Len(handed), frames)
  BY <1>1 DEF CutInv, StreamInv
<1>8. Behind(packetBuffer', left, Len(handed), frames)
  <2>1. packetBuffer \o (got \o left) = (packetBuffer \o got) \o left
    <3>1. \A u, v, w \in Seq(Bytes) : (u \o v) \o w = u \o (v \o w)
      BY Regroup, Zenon
    <3> QED
      BY <1>2, <1>4, <3>1, Zenon
  <2> QED
    BY <1>1, <1>4, <1>7, <2>1, Zenon DEF Behind
<1>9. StreamInv'
  BY <1>1, <1>4, <1>7, <1>8 DEF StreamInv
<1>10. bufferSize # 0 => Len(packetBuffer') >= HDR /\ bufferSize = packetBuffer'[1].size
  <2>1. bufferSize = IF Len(packetBuffer) >= HDR THEN packetBuffer[1].size ELSE 0
    BY <1>1 DEF CutInv, HeaderInv
  <2>2. Len(packetBuffer) >= HDR => 1 \in 1 .. Len(packetBuffer) /\ Len(packetBuffer') >= HDR
    BY <1>5, SizesAssumption
  <2> QED
    BY <1>5, <2>1, <2>2
<1>11. /\ bufferSize' = IF Len(packetBuffer') >= HDR THEN packetBuffer'[1].size ELSE 0
       /\ thread' # "handle" /\ Len(packetBuffer') >= HDR => Len(packetBuffer') < packetBuffer'[1].size
       /\ thread' = "handle" => Len(packetBuffer') > HDR
  <2> DEFINE b == packetBuffer'
             d == Len(handed)
  <2>1. /\ b \in Seq(Bytes) /\ d \in 0 .. Len(frames) /\ Behind(b, left, d, frames)
        /\ bufferSize # 0 => Len(b) >= HDR /\ bufferSize = b[1].size
        /\ SizeFrom(bufferSize, b)
    <3>1. d \in 0 .. Len(frames)
      BY <1>2, <1>7
    <3> QED
      BY <1>1, <1>5, <1>8, <1>10, <3>1, Zenon
  <2>2. \A k \in 1 .. Len(frames) : \E len \in Lens : frames[k] = CountedFrame(k, len)
    BY DEF CutInv, FramesInv
  <2> HIDE DEF b, d
  <2>3. /\ bufferSize' = IF Len(b) >= HDR THEN b[1].size ELSE 0
        /\ thread' # "handle" /\ Len(b) >= HDR => Len(b) < b[1].size
        /\ thread' = "handle" => Len(b) > HDR
    BY <1>2, <1>4, <2>1, <2>2, SizeRead
  <2> QED
    BY <2>3 DEF b
<1>12. HeaderInv'
  BY <1>11 DEF HeaderInv
<1> QED
  BY <1>9, <1>12

LEMMA HandleCut == ASSUME TypeOK, CutInv, Handle PROVE CutInv'
<1> DEFINE p == SubSeq(packetBuffer, 1, bufferSize)
           left == SubSeq(packetBuffer, bufferSize + 1, Len(packetBuffer))
           d == Len(handed)
<1>1. /\ packetBuffer' = left /\ thread = "handle" /\ bufferSize # 0
      /\ bufferSize <= Len(packetBuffer) /\ SizeFrom(0, packetBuffer')
      /\ UNCHANGED <<counted, conn, frames, stream, clean>>
      /\ clean => handed' = Append(handed, p)
  BY DEF Handle, Complete, server
<1>2. /\ packetBuffer \in Seq(Bytes) /\ frames \in Seq(Seq(Bytes)) /\ handed \in Seq(Seq(Bytes))
      /\ d \in Nat /\ bufferSize \in 0 .. Len(packetBuffer)
  BY <1>1, SizesAssumption DEF TypeOK
<1>3. p \in Seq(Bytes) /\ Len(p) = bufferSize /\ left \in Seq(Bytes) /\ p \o left = packetBuffer
      /\ \A i \in 1 .. bufferSize : p[i] = packetBuffer[i]
  BY <1>2, Cut
<1>4. FramesInv'
  BY <1>1 DEF CutInv, FramesInv
<1> SUFFICES ASSUME clean, counted PROVE StreamInv' /\ HeaderInv'
  BY <1>1, <1>4 DEF CutInv, StreamInv, HeaderInv
<1>5. d <= Len(frames) /\ handed = SubSeq(frames, 1, d) /\ d \in 0 .. Len(frames)
  BY <1>2 DEF CutInv, StreamInv
<1>6. PICK tail \in Seq(Bytes) :
        (conn # "broken" => tail = stream) /\ Behind(packetBuffer, tail, d, frames)
  BY <1>1 DEF CutInv, StreamInv, Joinable
<1>7. Len(packetBuffer) >= HDR /\ bufferSize = packetBuffer[1].size
  BY <1>1 DEF CutInv, HeaderInv
<1>8. \A k \in 1 .. Len(frames) : \E len \in Lens : frames[k] = CountedFrame(k, len)
  BY DEF CutInv, FramesInv
<1>9. /\ d + 1 <= Len(frames) /\ frames[d + 1] = CountedFrame(d + 1, bufferSize)
      /\ \A i \in 1 .. Len(packetBuffer) :
            i <= bufferSize => packetBuffer[i] = [frame |-> d + 1, at |-> i, size |-> bufferSize]
  <2> HIDE DEF d
  <2> QED
    BY <1>2, <1>5, <1>6, <1>7, <1>8, HeaderRead
<1>10. p = frames[d + 1]
  <2> DEFINE f == frames[d + 1]
  <2>1. f \in Seq(Bytes)
    BY <1>2, <1>9
  <2>2. Len(f) = bufferSize /\ \A i \in 1 .. bufferSize : f[i] = [frame |-> d + 1, at |-> i, size |-> bufferSize]
    BY <1>2, <1>9 DEF CountedFrame
  <2>3. \A i \in 1 .. bufferSize : i \in 1 .. Len(packetBuffer) /\ i <= bufferSize
    BY <1>2
  <2> HIDE DEF f, p, d
  <2>4. \A i \in 1 .. Len(p) : p[i] = f[i]
    BY <1>3, <1>9, <2>2, <2>3
  <2>5. p = f
    BY <1>3, <2>1, <2>2, <2>4, SeqEqual
  <2> QED
    BY <2>5 DEF f
<1>11. /\ SubSeq(frames, 1, d + 1) = Append(SubSeq(frames, 1, d), frames[d + 1])
       /\ SubSeq(frames, 1, d) \in Seq(Seq(Bytes)) /\ frames[d + 1] \in Seq(Bytes)
  <2> HIDE DEF d
  <2> QED
    BY <1>2, <1>9, OneMore
<1>12. handed' = SubSeq(frames, 1, d + 1) /\ Len(handed') = d + 1
  <2>1. handed' = Append(handed, frames[d + 1])
    BY <1>1, <1>10
  <2>2. Len(handed') = d + 1
    BY <1>2, <1>11, <2>1
  <2> HIDE DEF d
  <2> QED
    BY <1>5, <1>11, <2>1, <2>2
<1>13. Behind(left, tail, d + 1, frames)
  <2> DEFINE x == FlattenSeq(SubSeq(frames, 1, d))
  <2>1. FlattenSeq(SubSeq(frames, 1, d + 1)) = x \o p
    <3> DEFINE h == SubSeq(frames, 1, d)
    <3> HIDE DEF h, p, d
    <3>1. h \in Seq(Seq(Bytes)) /\ p \in Seq(Bytes) /\ SubSeq(frames, 1, d + 1) = Append(h, p)
      BY <1>3, <1>10, <1>11 DEF h
    <3> QED
      BY <3>1, FlattenMore DEF h
  <2>2. x \in Seq(Bytes)
    <3> HIDE DEF d
    <3> QED
      BY <1>11, FlattenType
  <2>3. x \o (packetBuffer \o tail) = FlattenSeq(frames)
    BY <1>6 DEF Behind
  <2> HIDE DEF x, p, left, d
  <2>0. /\ \A u, v \in Seq(Bytes) : u \o v \in Seq(Bytes)
        /\ \A u, v, w \in Seq(Bytes) : (u \o v) \o w = u \o (v \o w)
    BY Regroup, Zenon
  <2>4. (p \o left) \o tail = p \o (left \o tail) /\ left \o tail \in Seq(Bytes)
    BY <1>3, <2>0, Zenon
  <2>5. (x \o p) \o (left \o tail) = x \o (p \o (left \o tail))
    BY <1>3, <2>0, <2>2, <2>4, Zenon
  <2> QED
    BY <1>3, <2>1, <2>3, <2>4, <2>5, Zenon DEF Behind
<1>14. StreamInv'
  BY <1>1, <1>6, <1>9, <1>12, <1>13 DEF StreamInv
<1>15. /\ bufferSize' = IF Len(left) >= HDR THEN left[1].size ELSE 0
       /\ thread' # "handle" /\ Len(left) >= HDR => Len(left) < left[1].size
       /\ thread' = "handle" => Len(left) > HDR
  <2>1. d + 1 \in 0 .. Len(frames)
    BY <1>2, <1>9
  <2>2. SizeFrom(0, left)
    BY <1>1
  <2> DEFINE e == d + 1
  <2>3. e \in 0 .. Len(frames) /\ Behind(left, tail, e, frames)
    BY <1>13, <2>1
  <2> HIDE DEF left, e
  <2> QED
    BY <1>2, <1>3, <1>8, <2>2, <2>3, SizeRead
<1>16. HeaderInv'
  BY <1>1, <1>15 DEF HeaderInv
<1> QED
  BY <1>14, <1>16

LEMMA SendsCut == ASSUME TypeOK, CutInv, NEW len \in Lens, ServerSends(len) PROVE CutInv'
<1> DEFINE k == Len(frames) + 1
           frame == Frame(k, len)
<1>1. /\ frames' = Append(frames, frame) /\ stream' = stream \o frame /\ conn = "open"
      /\ UNCHANGED <<counted, conn, thread, packetBuffer, bufferSize, handed, clean>>
      /\ Len(frames) < MaxFrames
  BY DEF ServerSends, buffer
<1>2. /\ packetBuffer \in Seq(Bytes) /\ stream \in Seq(Bytes) /\ frames \in Seq(Seq(Bytes))
      /\ k \in 1 .. MaxFrames /\ Len(frames) \in Nat /\ Len(handed) \in Nat
  BY <1>1, SizesAssumption DEF TypeOK
<1>3. frame \in Seq(Bytes)
  BY <1>2, FrameType DEF TypeOK
<1>4. counted => frame = CountedFrame(k, len)
  BY DEF Frame, CountedFrame
<1> HIDE DEF frame
<1>5. frames' \in Seq(Seq(Bytes)) /\ Len(frames') = k /\ frames'[k] = frame
      /\ \A i \in 1 .. Len(frames) : frames'[i] = frames[i]
  BY <1>1, <1>2, <1>3
<1>6. FramesInv'
  <2> SUFFICES ASSUME counted, NEW i \in 1 .. Len(frames')
               PROVE  \E l \in Lens : frames'[i] = CountedFrame(i, l)
    BY <1>1 DEF FramesInv
  <2>1. CASE i = k
    BY <1>4, <1>5, <2>1
  <2>2. CASE i # k
    <3>1. i \in 1 .. Len(frames)
      BY <1>2, <1>5, <2>2
    <3> QED
      BY <1>5, <3>1 DEF CutInv, FramesInv
  <2> QED
    BY <2>1, <2>2
<1>7. HeaderInv'
  BY <1>1 DEF CutInv, HeaderInv
<1> SUFFICES ASSUME clean, counted PROVE StreamInv'
  BY <1>1, <1>6, <1>7 DEF CutInv, StreamInv
<1> DEFINE d == Len(handed)
<1>8. d <= Len(frames) /\ handed = SubSeq(frames, 1, d) /\ Behind(packetBuffer, stream, d, frames)
  BY <1>1 DEF CutInv, StreamInv
<1>9. SubSeq(frames', 1, d) = SubSeq(frames, 1, d) /\ SubSeq(frames, 1, d) \in Seq(Seq(Bytes))
      /\ d <= Len(frames')
  <2>1. d \in Nat /\ d <= Len(frames)
    BY <1>2, <1>8
  <2> HIDE DEF d
  <2> QED
    BY <1>1, <1>2, <1>3, <1>5, <2>1
<1> DEFINE x == FlattenSeq(SubSeq(frames, 1, d))
<1>10. x \in Seq(Bytes)
  <2> HIDE DEF d
  <2> QED
    BY <1>9, FlattenType
<1>11. FlattenSeq(frames') = FlattenSeq(frames) \o frame
  BY <1>1, <1>2, <1>3, FlattenMore
<1>12. Behind(packetBuffer, stream \o frame, d, frames')
  <2>1. x \o (packetBuffer \o stream) = FlattenSeq(frames)
    BY <1>8 DEF Behind
  <2>2. FlattenSeq(SubSeq(frames', 1, d)) = x
    BY <1>9
  <2> HIDE DEF x, d
  <2>0. /\ \A u, v \in Seq(Bytes) : u \o v \in Seq(Bytes)
        /\ \A u, v, w \in Seq(Bytes) : (u \o v) \o w = u \o (v \o w)
    BY Regroup, Zenon
  <2>3. packetBuffer \o (stream \o frame) = (packetBuffer \o stream) \o frame
        /\ packetBuffer \o stream \in Seq(Bytes)
    BY <1>2, <1>3, <2>0, Zenon
  <2>5. x \in Seq(Bytes)
    BY <1>10
  <2>4. (x \o (packetBuffer \o stream)) \o frame = x \o ((packetBuffer \o stream) \o frame)
    BY <1>3, <2>0, <2>3, <2>5, Zenon
  <2> QED
    BY <1>11, <2>1, <2>2, <2>3, <2>4, Zenon DEF Behind
<1>13. stream' \in Seq(Bytes)
  BY <1>1, <1>2, <1>3
<1> QED
  BY <1>1, <1>8, <1>9, <1>12, <1>13 DEF StreamInv

LEMMA CutStep == TypeOK /\ CallInv /\ CutInv /\ [Next]_vars => CutInv'
<1> SUFFICES ASSUME TypeOK, CallInv, CutInv, [Next]_vars PROVE CutInv'
  OBVIOUS
\* Steps that leave the stream and the buffer, and from which the thread does not
\* come to the loop with a packet that is complete.
<1>1. CASE /\ UNCHANGED <<counted, conn, frames, stream, packetBuffer, bufferSize, handed, clean>>
           /\ \/ thread' = thread
              \/ thread' \in {"ended", "overflowed"} /\ Joinable
              \/ thread' = "joined"
              \/ thread = "loop" /\ thread' = "recv"
              \/ thread = "handle" /\ thread' = "loop" /\ ~Complete
  <2>1. FramesInv'
    BY <1>1 DEF CutInv, FramesInv
  <2>2. StreamInv'
    BY <1>1 DEF CutInv, StreamInv, Joinable
  <2>3. CASE thread' = thread \/ thread' \notin {"loop", "recv", "handle"}
    BY <1>1, <2>1, <2>2, <2>3 DEF CutInv, HeaderInv
  <2>4. CASE thread = "loop" /\ thread' = "recv"
    BY <1>1, <2>1, <2>2, <2>4 DEF CutInv, HeaderInv
  <2>5. CASE thread = "handle" /\ thread' = "loop" /\ ~Complete
    <3> SUFFICES ASSUME clean, counted PROVE HeaderInv'
      BY <1>1, <2>1, <2>2 DEF CutInv, HeaderInv
    <3>1. Len(packetBuffer) > HDR /\ HDR \in Nat /\ Len(packetBuffer) \in Nat
      BY <2>5, SizesAssumption DEF CutInv, HeaderInv, TypeOK
    <3>2. bufferSize = packetBuffer[1].size /\ bufferSize \in Nat
      BY <2>5, <3>1, SizesAssumption DEF CutInv, HeaderInv, TypeOK
    <3>3. bufferSize # 0
      <4>1. PICK tail \in Seq(Bytes) : Behind(packetBuffer, tail, Len(handed), frames)
        BY <2>5 DEF CutInv, StreamInv, Joinable
      <4>2. Len(handed) \in 0 .. Len(frames)
        BY DEF CutInv, StreamInv, TypeOK
      <4>3. \A k \in 1 .. Len(frames) : \E len \in Lens : frames[k] = CountedFrame(k, len)
        BY DEF CutInv, FramesInv
      <4>4. frames \in Seq(Seq(Bytes)) /\ packetBuffer \in Seq(Bytes) /\ Len(packetBuffer) >= HDR
        BY <3>1 DEF TypeOK
      <4> DEFINE d == Len(handed)
      <4> HIDE DEF d
      <4>5. 2 * HDR <= packetBuffer[1].size
        BY <4>1, <4>2, <4>3, <4>4, HeaderRead DEF d
      <4> QED
        BY <3>2, <4>5, SizesAssumption
    <3>4. Len(packetBuffer) < bufferSize
      BY <2>5, <3>1, <3>2, <3>3 DEF Complete
    <3> QED
      BY <1>1, <2>5, <3>1, <3>2, <3>4 DEF HeaderInv
  <2> QED
    BY <1>1, <2>3, <2>4, <2>5
<1>2. CASE Disconnect \/ Wait \/ Destroy
  BY <1>1, <1>2 DEF Disconnect, Wait, Destroy, JoinOr, server, buffer
<1>3. CASE Join
  BY <1>1, <1>3 DEF Join, server, buffer
<1>4. ASSUME NEW inLength \in InLengths, SendPacket(inLength) PROVE CutInv'
  BY <1>1, <1>4 DEF SendPacket, server, buffer
<1>5. CASE Sending
  BY <1>1, <1>5 DEF Sending, SendTakesAll, SendFails, Counted, server, buffer
<1>6. CASE TestDisconnect \/ RecvFails \/ Return
  BY <1>1, <1>6 DEF TestDisconnect, RecvFails, Return, Joinable, server, buffer
<1>7. ASSUME NEW sizeRead \in ReceiveBytes, RecvOverflow(sizeRead) PROVE CutInv'
  BY <1>1, <1>7 DEF RecvOverflow, Joinable, server, buffer
<1>8. CASE ServerCloses
  <2>1. conn = "open" /\ conn' = "eof"
        /\ UNCHANGED <<counted, frames, stream, thread, packetBuffer, bufferSize, handed, clean>>
    BY <1>8 DEF ServerCloses, buffer
  <2> QED
    BY <2>1 DEF CutInv, FramesInv, StreamInv, HeaderInv
<1>9. CASE ConnectionBreaks
  <2>1. conn # "broken" /\ conn' = "broken"
        /\ UNCHANGED <<counted, frames, thread, packetBuffer, bufferSize, handed, clean>>
    BY <1>9 DEF ConnectionBreaks, buffer
  <2> QED
    BY <2>1 DEF CutInv, FramesInv, StreamInv, HeaderInv
<1>10. CASE UNCHANGED vars
  BY <1>1, <1>10 DEF vars, server, buffer
<1> QED
  BY <1>2, <1>3, <1>4, <1>5, <1>6, <1>7, <1>8, <1>9, <1>10, ConnectCut, RecvCut, HandleCut, SendsCut
     DEF Next, Calls, RecvPacket, Network

\* Bytes put together, in any order.
LEMMA OneApart == \A u, v, w \in Seq(Bytes) : (u \o v) \o w = u \o (v \o w)
  BY Regroup, Zenon

\* The ones in the middle put together first.
LEMMA Middle ==
    \A a, b, c, d \in Seq(Bytes) : (a \o b) \o (c \o d) = a \o ((b \o c) \o d)
<1> SUFFICES ASSUME NEW a \in Seq(Bytes), NEW b \in Seq(Bytes),
                    NEW c \in Seq(Bytes), NEW d \in Seq(Bytes)
             PROVE  (a \o b) \o (c \o d) = a \o ((b \o c) \o d)
  BY Zenon
<1>0. /\ \A u, v \in Seq(Bytes) : u \o v \in Seq(Bytes)
      /\ \A u, v, w \in Seq(Bytes) : (u \o v) \o w = u \o (v \o w)
  BY Regroup, Zenon
<1>1. c \o d \in Seq(Bytes)
  BY <1>0, Zenon
<1>2. (b \o c) \o d = b \o (c \o d)
  BY <1>0, Zenon
<1>3. (a \o b) \o (c \o d) = a \o (b \o (c \o d))
  BY <1>0, <1>1, Zenon
<1> QED
  BY <1>2, <1>3, Zenon

\* The last ones put to them at the end.
LEMMA AtTheEnd ==
    \A a, b, c, d \in Seq(Bytes) : a \o (b \o (c \o d)) = (a \o (b \o c)) \o d
<1> SUFFICES ASSUME NEW a \in Seq(Bytes), NEW b \in Seq(Bytes),
                    NEW c \in Seq(Bytes), NEW d \in Seq(Bytes)
             PROVE  a \o (b \o (c \o d)) = (a \o (b \o c)) \o d
  BY Zenon
<1>0. /\ \A u, v \in Seq(Bytes) : u \o v \in Seq(Bytes)
      /\ \A u, v, w \in Seq(Bytes) : (u \o v) \o w = u \o (v \o w)
  BY Regroup, Zenon
<1>1. b \o c \in Seq(Bytes)
  BY <1>0, Zenon
<1>2. (b \o c) \o d = b \o (c \o d)
  BY <1>0, Zenon
<1>3. (a \o (b \o c)) \o d = a \o ((b \o c) \o d)
  BY <1>0, <1>1, Zenon
<1> QED
  BY <1>2, <1>3, Zenon

\* No byte is lost, doubled or moved, whatever the headers say.
BytesInv ==
    clean /\ conn # "broken" =>
        FlattenSeq(handed) \o (packetBuffer \o stream) = FlattenSeq(frames)

LEMMA BytesStep == TypeOK /\ BytesInv /\ [Next]_vars => BytesInv'
<1> SUFFICES ASSUME TypeOK, BytesInv, [Next]_vars PROVE BytesInv'
  OBVIOUS
<1>1. /\ packetBuffer \in Seq(Bytes) /\ stream \in Seq(Bytes)
      /\ frames \in Seq(Seq(Bytes)) /\ handed \in Seq(Seq(Bytes))
      /\ FlattenSeq(handed) \in Seq(Bytes)
  BY FlattenType DEF TypeOK
<1>2. CASE UNCHANGED <<frames, stream, packetBuffer, handed, clean>>
           /\ (conn' = conn \/ conn' = "broken" \/ conn = "open")
  BY <1>2 DEF BytesInv
<1>3. CASE Connect \/ ConnectFails
  <2>1. CASE ConnectFails
    BY <2>1 DEF ConnectFails, BytesInv
  <2>2. CASE Connect
    <3>1. /\ frames' = <<>> /\ stream' = <<>> /\ handed' = <<>>
          /\ clean' => packetBuffer' = <<>>
      BY <2>2 DEF Connect
    <3>2. FlattenSeq(<<>>) = <<>> /\ <<>> \o (<<>> \o <<>>) = <<>>
      BY DEF FlattenSeq
    <3> QED
      BY <3>1, <3>2, Zenon DEF BytesInv
  <2> QED
    BY <1>3, <2>1, <2>2
<1>4. ASSUME NEW sizeRead \in ReceiveBytes, Recv(sizeRead) PROVE BytesInv'
  <2> DEFINE got == SubSeq(stream, 1, sizeRead)
             left == SubSeq(stream, sizeRead + 1, Len(stream))
  <2>1. /\ packetBuffer' = packetBuffer \o got /\ stream' = left
        /\ UNCHANGED <<conn, frames, handed, clean>>
    BY <1>4 DEF Recv
  <2>2. got \in Seq(Bytes) /\ left \in Seq(Bytes) /\ got \o left = stream
    BY <1>1, SizeReadFits, Cut
  <2> HIDE DEF got, left
  <2>3. (packetBuffer \o got) \o left = packetBuffer \o stream
    <3>1. (packetBuffer \o got) \o left = packetBuffer \o (got \o left)
      <4>1. packetBuffer \in Seq(Bytes) /\ got \in Seq(Bytes) /\ left \in Seq(Bytes)
        BY <1>1, <2>2
      <4> QED
        BY <4>1, OneApart, Zenon
    <3> QED
      BY <2>2, <3>1
  <2> QED
    BY <2>1, <2>3, Zenon DEF BytesInv
<1>5. CASE Handle
  <2> DEFINE p == SubSeq(packetBuffer, 1, bufferSize)
             left == SubSeq(packetBuffer, bufferSize + 1, Len(packetBuffer))
             x == FlattenSeq(handed)
  <2>1. /\ packetBuffer' = left /\ UNCHANGED <<conn, frames, stream, clean>>
        /\ clean => handed' = Append(handed, p)
        /\ bufferSize \in 0 .. Len(packetBuffer)
    BY <1>5, SizesAssumption DEF Handle, Complete, server, TypeOK
  <2>2. p \in Seq(Bytes) /\ left \in Seq(Bytes) /\ p \o left = packetBuffer
    BY <1>1, <2>1, Cut
  <2>3. x \in Seq(Bytes)
    BY <1>1
  <2> HIDE DEF p, left
  <2>4. clean => FlattenSeq(handed') = x \o p
    BY <1>1, <2>1, <2>2, FlattenMore
  <2> HIDE DEF x
  <2>5. (x \o p) \o (left \o stream) = x \o (packetBuffer \o stream)
    <3>1. (x \o p) \o (left \o stream) = x \o ((p \o left) \o stream)
      <4>1. p \in Seq(Bytes) /\ left \in Seq(Bytes) /\ stream \in Seq(Bytes)
        BY <1>1, <2>2
      <4> QED
        BY <2>3, <4>1, Middle, ZenonT(60)
    <3> QED
      BY <2>2, <3>1
  <2>6. clean /\ conn # "broken" => x \o (packetBuffer \o stream) = FlattenSeq(frames)
    BY DEF BytesInv, x
  <2> QED
    BY <2>1, <2>4, <2>5, <2>6, Zenon DEF BytesInv
<1>6. ASSUME NEW len \in Lens, ServerSends(len) PROVE BytesInv'
  <2> DEFINE frame == Frame(Len(frames) + 1, len)
             x == FlattenSeq(handed)
  <2>1. /\ frames' = Append(frames, frame) /\ stream' = stream \o frame
        /\ UNCHANGED <<conn, packetBuffer, handed, clean>>
        /\ Len(frames) < MaxFrames
    BY <1>6 DEF ServerSends, buffer
  <2>2. frame \in Seq(Bytes)
    <3>1. Len(frames) + 1 \in 1 .. MaxFrames
      BY <1>1, <2>1, SizesAssumption
    <3> QED
      BY <3>1, FrameType DEF TypeOK
  <2>3. x \in Seq(Bytes)
    BY <1>1
  <2> HIDE DEF frame
  <2>4. FlattenSeq(frames') = FlattenSeq(frames) \o frame
    BY <1>1, <2>1, <2>2, FlattenMore
  <2> HIDE DEF x
  <2>5. x \o (packetBuffer \o (stream \o frame)) = (x \o (packetBuffer \o stream)) \o frame
    <3>1. packetBuffer \in Seq(Bytes) /\ stream \in Seq(Bytes)
      BY <1>1
    <3> QED
      <4>1. \A d \in Seq(Bytes) :
              x \o (packetBuffer \o (stream \o d)) = (x \o (packetBuffer \o stream)) \o d
        BY <2>3, <3>1, AtTheEnd, Zenon
      <4> QED
        BY <2>2, <4>1, Zenon
  <2>6. clean /\ conn # "broken" => x \o (packetBuffer \o stream) = FlattenSeq(frames)
    BY DEF BytesInv, x
  <2>7. FlattenSeq(handed') = x
    BY <2>1 DEF x
  <2> QED
    BY <2>1, <2>4, <2>5, <2>6, <2>7, Zenon DEF BytesInv
<1>7. CASE Disconnect \/ Wait \/ Destroy \/ Join \/ Sending
  BY <1>2, <1>7 DEF Disconnect, Wait, Destroy, JoinOr, Join, Sending, SendTakesAll, SendFails,
     Counted, server, buffer
<1>8. ASSUME NEW inLength \in InLengths, SendPacket(inLength) PROVE BytesInv'
  BY <1>2, <1>8 DEF SendPacket, server, buffer
<1>9. CASE TestDisconnect \/ RecvFails \/ Return
  BY <1>2, <1>9 DEF TestDisconnect, RecvFails, Return, server, buffer
<1>10. ASSUME NEW sizeRead \in ReceiveBytes, RecvOverflow(sizeRead) PROVE BytesInv'
  BY <1>2, <1>10 DEF RecvOverflow, server, buffer
<1>11. CASE ServerCloses \/ ConnectionBreaks
  <2>1. CASE ServerCloses
    BY <1>2, <2>1 DEF ServerCloses, buffer
  <2>2. CASE ConnectionBreaks
    BY <2>2 DEF ConnectionBreaks, BytesInv
  <2> QED
    BY <1>11, <2>1, <2>2
<1>12. CASE UNCHANGED vars
  BY <1>2, <1>12 DEF vars, server, buffer
<1> QED
  BY <1>3, <1>4, <1>5, <1>6, <1>7, <1>8, <1>9, <1>10, <1>11, <1>12
     DEF Next, Calls, RecvPacket, Network

\* FramingKept: on a connection that began with an empty buffer no byte is lost,
\* doubled or moved, however recv cuts the stream and whatever the headers count
\* (NetworkClient.cpp:75-123); from a server whose headers count themselves, which
\* TCPSocket::Send's do not, RecvHandler gets whole packets in the order they were
\* sent, and the thread does not wait with a complete packet.
THEOREM Framing == Spec => []FramingKept
<1>1. TypeOK /\ CutInv /\ BytesInv => FramingKept
  <2>1. ASSUME TypeOK, CutInv, clean, counted
        PROVE  /\ IsPrefix(handed, frames)
               /\ thread = "recv" /\ Len(packetBuffer) >= HDR =>
                      Len(packetBuffer) < packetBuffer[1].size
    <3>1. SubSeq(handed, 1, Len(handed)) = handed
      BY <2>1, SubSeqFull DEF TypeOK
    <3>2. IsPrefix(handed, frames)
      BY <2>1, <3>1 DEF CutInv, StreamInv, IsPrefix
    <3> QED
      BY <2>1, <3>2 DEF CutInv, HeaderInv
  <2>2. ASSUME TypeOK, BytesInv, clean, conn # "broken"
        PROVE  FlattenSeq(handed) \o packetBuffer \o stream = FlattenSeq(frames)
    <3> DEFINE x == FlattenSeq(handed)
    <3>1. x \in Seq(Bytes) /\ packetBuffer \in Seq(Bytes) /\ stream \in Seq(Bytes)
      BY <2>2, FlattenType DEF TypeOK
    <3>2. x \o (packetBuffer \o stream) = FlattenSeq(frames)
      BY <2>2 DEF BytesInv
    <3> HIDE DEF x
    <3>3. (x \o packetBuffer) \o stream = x \o (packetBuffer \o stream)
      BY <3>1, ConcatAssociative
    <3> QED
      BY <3>2, <3>3 DEF x
  <2> QED
    BY <2>1, <2>2 DEF FramingKept
<1>2. Init => BytesInv
  BY DEF Init, BytesInv
<1> QED
  BY <1>1, <1>2, BytesStep, CutInit, CutStep, CallInit, CallStep, TypeInit, TypeStep, PTL DEF Spec
==============================================================================
