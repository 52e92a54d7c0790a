-------------------------- MODULE RecvFramingProofs --------------------------
(***************************************************************************)
(* For any header and buffer size, any packets and any way the stream is   *)
(* cut into completions: the reader keeps its place in the stream, does    *)
(* not sit on a complete packet, loses and doubles no byte, and implements *)
(* the frame channel.                                                      *)
(*                                                                         *)
(* The argument is about the bytes that are not handled yet, buffered or   *)
(* on their way.  What matters of them is local: where a byte's packet     *)
(* goes on, and where it ends the next one begins.                         *)
(***************************************************************************)
EXTENDS RecvFraming, WellFoundedInduction, TLAPS

\* Byte r[j] belongs to the packet of r[i].
Same(r, i, j) == i <= j /\ j - i <= r[i].len - r[i].at

\* The bytes r are the packets of fs behind the first d, one after the other.
Placed(r, d, fs) ==
    /\ \A i \in 1 .. Len(r) :
        /\ r[i].at <= r[i].len /\ r[i].frame <= Len(fs)
        /\ fs[r[i].frame] = Frame(r[i].frame, r[i].len)
    /\ \A i, j \in 1 .. Len(r) :
        Same(r, i, j) =>
            r[j] = [frame |-> r[i].frame, at |-> r[i].at + (j - i), len |-> r[i].len]
    /\ \A i, j \in 1 .. Len(r) :
        j - i = r[i].len - r[i].at + 1 => r[j].at = 1 /\ r[j].frame = r[i].frame + 1
    /\ IF r = <<>> THEN Len(fs) = d
       ELSE /\ r[1].at = 1 /\ r[1].frame = d + 1
            /\ r[Len(r)].at = r[Len(r)].len /\ r[Len(r)].frame = Len(fs)

Rest == packetBuf \o stream

\* The reader is at the first byte of a packet, and knows the length it read.
InStep ==
    /\ recvStep = "RECV_BODY" => packetBuf # <<>> /\ packetSize = packetBuf[1].len
    /\ recvStep = "RECV_LEN" /\ pc = "recv" => Len(packetBuf) < HDR
    /\ recvStep = "RECV_BODY" /\ pc = "recv" => Len(packetBuf) < packetSize

PlaceInv == TypeOK /\ Placed(Rest, Len(delivered), frames) /\ InStep

-----------------------------------------------------------------------------
(* Packets and their bytes                                                 *)

\* The bytes of a packet.
LEMMA FrameType ==
    ASSUME NEW k \in 1 .. MaxFrames, NEW len \in Lens
    PROVE  /\ Frame(k, len) \in Seq(Bytes) /\ Len(Frame(k, len)) = len
           /\ len \in Nat /\ len > 0 /\ HDR <= len /\ len <= BUF
           /\ \A i \in 1 .. len : Frame(k, len)[i] = [frame |-> k, at |-> i, len |-> len]
<1>1. len \in Nat /\ len > 0 /\ HDR <= len /\ len <= BUF
  BY SizesAssumption, LensAssumption
<1>2. \A i \in 1 .. len : [frame |-> k, at |-> i, len |-> len] \in Bytes
  BY <1>1, SizesAssumption DEF Bytes
<1> QED
  BY <1>1, <1>2 DEF Frame

\* A byte and its place.
LEMMA ByteType ==
    ASSUME NEW r \in Seq(Bytes), NEW i \in 1 .. Len(r)
    PROVE  /\ r[i] \in Bytes /\ r[i].frame \in 1 .. MaxFrames /\ r[i].frame \in Nat
           /\ r[i].at \in Nat /\ r[i].at >= 1
           /\ r[i].len \in Lens /\ r[i].len \in Nat /\ r[i].len >= HDR /\ r[i].len <= BUF
<1>1. r[i] \in Bytes
  OBVIOUS
<1>2. r[i].frame \in 1 .. MaxFrames /\ r[i].at \in 1 .. BUF /\ r[i].len \in Lens
  BY <1>1 DEF Bytes
<1>3. MaxFrames \in Nat /\ BUF \in Nat /\ HDR \in Nat /\ Lens \subseteq Nat
  BY SizesAssumption
<1>4. r[i].frame \in Nat
  BY <1>2, <1>3
<1>5. r[i].at \in Nat /\ r[i].at >= 1
  BY <1>2, <1>3
<1>6. r[i].len \in Nat /\ r[i].len >= HDR /\ r[i].len <= BUF
  BY <1>2, <1>3, LensAssumption
<1> QED
  BY <1>1, <1>2, <1>4, <1>5, <1>6

\* Two pieces of a stream put together.
LEMMA CatAt ==
    ASSUME NEW S, NEW a \in Seq(S), NEW b \in Seq(S)
    PROVE  /\ a \o b \in Seq(S) /\ Len(a \o b) = Len(a) + Len(b) /\ Len(a) \in Nat /\ Len(b) \in Nat
           /\ \A i \in 1 .. Len(a) : (a \o b)[i] = a[i]
           /\ \A i \in Len(a) + 1 .. Len(a) + Len(b) : (a \o b)[i] = b[i - Len(a)]
  OBVIOUS

\* A packet is sent.
LEMMA PlacedSent ==
    ASSUME NEW r \in Seq(Bytes), NEW d \in Nat, NEW fs \in Seq(Seq(Bytes)), Placed(r, d, fs),
           NEW len \in Lens, Len(fs) < MaxFrames
    PROVE  LET f == Frame(Len(fs) + 1, len) IN Placed(r \o f, d, Append(fs, f))
<1> DEFINE k == Len(fs) + 1
           f == Frame(k, len)
           s == r \o f
           n == Len(r)
           gs == Append(fs, f)
<1>1. k \in 1 .. MaxFrames /\ n \in Nat /\ Len(fs) \in Nat
  BY SizesAssumption
<1>2. /\ f \in Seq(Bytes) /\ Len(f) = len /\ len \in Nat /\ len > 0
      /\ \A i \in 1 .. len : f[i] = [frame |-> k, at |-> i, len |-> len]
  BY <1>1, FrameType
<1>3. /\ s \in Seq(Bytes) /\ Len(s) = n + len /\ s # <<>>
      /\ \A i \in 1 .. n : s[i] = r[i]
      /\ \A i \in n + 1 .. n + len : s[i] = [frame |-> k, at |-> i - n, len |-> len]
  <2> HIDE DEF f
  <2>1. /\ s \in Seq(Bytes) /\ Len(s) = n + len
        /\ \A i \in 1 .. n : s[i] = r[i]
        /\ \A i \in n + 1 .. n + len : s[i] = f[i - n]
    BY <1>2, CatAt
  <2>2. \A i \in n + 1 .. n + len : i - n \in 1 .. len
    BY <1>1, <1>2
  <2>3. s # <<>>
    BY <1>1, <1>2, <2>1
  <2> QED
    BY <1>2, <2>1, <2>2, <2>3
<1>4. /\ Len(gs) = k /\ gs[k] = f
      /\ \A i \in 1 .. Len(fs) : gs[i] = fs[i]
  OBVIOUS
<1> HIDE DEF f, s, n, gs, k
<1>12. ASSUME NEW i \in n + 1 .. n + len
      PROVE  s[i].at = i - n /\ s[i].len = len /\ s[i].frame = k
  <2>1. s[i] = [frame |-> k, at |-> i - n, len |-> len]
    BY <1>3
  <2> QED
    BY <2>1
<1>5. ASSUME NEW i \in 1 .. Len(s)
      PROVE  /\ s[i].at <= s[i].len /\ s[i].frame <= Len(gs)
             /\ gs[s[i].frame] = Frame(s[i].frame, s[i].len)
  <2>1. CASE i \in 1 .. n
    <3>1. s[i] = r[i] /\ r[i].frame \in 1 .. Len(fs) /\ r[i].at <= r[i].len
          /\ fs[r[i].frame] = Frame(r[i].frame, r[i].len)
      BY <1>3, <2>1, ByteType DEF Placed, n
    <3> QED
      BY <1>1, <1>4, <3>1 DEF k
  <2>2. CASE i \in n + 1 .. n + len
    <3>1. s[i].at = i - n /\ s[i].len = len /\ s[i].frame = k
      BY <1>12, <2>2
    <3> QED
      BY <1>1, <1>2, <1>4, <2>2, <3>1 DEF f, k
  <2> QED
    BY <1>1, <1>2, <1>3, <2>1, <2>2
\* A packet of r ends in r.
<1>6. ASSUME NEW i \in 1 .. n PROVE r[i].len - r[i].at <= n - i
  <2>1. r # <<>> /\ r[n].at = r[n].len /\ n \in 1 .. n /\ i \in 1 .. Len(r) /\ n \in 1 .. Len(r)
    BY <1>1, <1>6 DEF Placed, n
  <2>2. /\ r[i].len \in Nat /\ r[i].at \in Nat /\ r[n].len \in Nat /\ r[n].at \in Nat
    BY <2>1, ByteType DEF n
  <2>3. CASE Same(r, i, n)
    <3>1. r[n] = [frame |-> r[i].frame, at |-> r[i].at + (n - i), len |-> r[i].len]
      BY <2>1, <2>3 DEF Placed
    <3>2. r[i].len = r[i].at + (n - i)
      BY <2>1, <3>1
    <3> QED
      BY <1>1, <1>6, <2>2, <3>2
  <2>4. CASE ~Same(r, i, n)
    BY <1>1, <1>6, <2>2, <2>4 DEF Same
  <2> QED
    BY <2>3, <2>4
<1>7. ASSUME NEW i \in 1 .. Len(s), NEW j \in 1 .. Len(s), Same(s, i, j)
      PROVE  s[j] = [frame |-> s[i].frame, at |-> s[i].at + (j - i), len |-> s[i].len]
  <2>1. CASE i \in 1 .. n
    <3>1. PICK a \in Nat, l \in Nat : s[i] = r[i] /\ r[i].len = l /\ r[i].at = a
      BY <1>3, <2>1, ByteType DEF n
    <3>2. l - a <= n - i /\ i <= j /\ j - i <= l - a /\ j \in 1 .. n + len
      BY <1>3, <1>6, <1>7, <2>1, <3>1 DEF Same
    <3>3. j \in 1 .. n /\ Same(r, i, j)
      BY <1>1, <1>2, <2>1, <3>1, <3>2 DEF Same
    <3> QED
      BY <1>3, <2>1, <3>1, <3>3 DEF Placed, n
  <2>2. CASE i \in n + 1 .. n + len
    <3>1. s[i].at = i - n /\ s[i].len = len /\ s[i].frame = k
      BY <1>12, <2>2
    <3>2. j \in n + 1 .. n + len /\ s[i].at + (j - i) = j - n
      BY <1>1, <1>2, <1>3, <1>7, <2>2, <3>1 DEF Same
    <3> QED
      BY <1>3, <3>1, <3>2
  <2> QED
    BY <1>1, <1>2, <1>3, <2>1, <2>2
<1>8. ASSUME NEW i \in 1 .. Len(s), NEW j \in 1 .. Len(s), j - i = s[i].len - s[i].at + 1
      PROVE  s[j].at = 1 /\ s[j].frame = s[i].frame + 1
  <2>1. CASE i \in 1 .. n
    <3>1. PICK a \in Nat, l \in Nat : s[i] = r[i] /\ r[i].len = l /\ r[i].at = a
      BY <1>3, <2>1, ByteType DEF n
    <3>0. l - a <= n - i /\ j - i = l - a + 1 /\ i \in 1 .. n
      BY <1>6, <1>8, <2>1, <3>1
    <3>2. CASE j \in 1 .. n
      <4>1. j - i = r[i].len - r[i].at + 1
        BY <3>0, <3>1
      <4>2. r[j].at = 1 /\ r[j].frame = r[i].frame + 1
        BY <2>1, <3>2, <4>1, Zenon DEF Placed, n
      <4> QED
        BY <1>3, <3>1, <3>2, <4>2
    <3>3. CASE j \in n + 1 .. n + len
      <4>1. j = n + 1 /\ l - a = n - i /\ n \in 1 .. n /\ i <= n
        BY <1>1, <1>2, <3>0, <3>3
      <4>2. r # <<>> /\ r[n].frame = Len(fs) /\ Same(r, i, n)
        BY <1>1, <2>1, <3>1, <4>1 DEF Placed, n, Same
      <4>3. r[n] = [frame |-> r[i].frame, at |-> r[i].at + (n - i), len |-> r[i].len]
        BY <2>1, <4>1, <4>2 DEF Placed, n
      <4>4. s[j].at = j - n /\ s[j].frame = k
        BY <1>12, <3>3
      <4>5. s[i].frame = Len(fs)
        BY <3>1, <4>2, <4>3
      <4> QED
        BY <1>1, <4>1, <4>4, <4>5 DEF k
    <3> QED
      BY <1>1, <1>2, <1>3, <3>2, <3>3
  <2>2. CASE i \in n + 1 .. n + len
    <3>1. s[i].at = i - n /\ s[i].len = len
      BY <1>12, <2>2
    <3> QED
      BY <1>1, <1>2, <1>3, <1>8, <2>2, <3>1
  <2> QED
    BY <1>1, <1>2, <1>3, <2>1, <2>2
<1>9. s[Len(s)].at = s[Len(s)].len /\ s[Len(s)].frame = Len(gs)
  BY <1>1, <1>2, <1>3, <1>4
<1>10. s[1].at = 1 /\ s[1].frame = d + 1
  <2>1. CASE r = <<>>
    <3>1. n = 0 /\ Len(fs) = d
      BY <2>1 DEF n, Placed
    <3> QED
      BY <1>1, <1>2, <1>3, <3>1 DEF k
  <2>2. CASE r # <<>>
    <3>1. n >= 1
      BY <2>2 DEF n
    <3> QED
      BY <1>1, <1>3, <2>2, <3>1 DEF Placed
  <2> QED
    BY <2>1, <2>2
<1>11. Placed(s, d, gs)
  BY <1>3, <1>5, <1>7, <1>8, <1>9, <1>10 DEF Placed
<1> QED
  BY <1>11 DEF s, f, gs, k

\* The start and the rest of a sequence.
LEMMA SubAt ==
    ASSUME NEW S, NEW s \in Seq(S), NEW m \in 0 .. Len(s)
    PROVE  /\ SubSeq(s, 1, m) \in Seq(S) /\ Len(SubSeq(s, 1, m)) = m
           /\ \A i \in 1 .. m : SubSeq(s, 1, m)[i] = s[i]
           /\ SubSeq(s, m + 1, Len(s)) \in Seq(S)
           /\ Len(SubSeq(s, m + 1, Len(s))) = Len(s) - m
           /\ \A i \in 1 .. Len(s) - m : SubSeq(s, m + 1, Len(s))[i] = s[m + i]
  OBVIOUS

LEMMA SameSeq ==
    ASSUME NEW S, NEW s \in Seq(S), NEW t \in Seq(S), Len(s) = Len(t),
           \A i \in 1 .. Len(s) : s[i] = t[i]
    PROVE  s = t
  OBVIOUS

\* The first packet of the stream, if all of it is there, is the one to be
\* handled next, and behind it the next one begins.
LEMMA PlacedHandled ==
    ASSUME NEW r \in Seq(Bytes), NEW d \in Nat, NEW fs \in Seq(Seq(Bytes)), Placed(r, d, fs),
           r # <<>>, r[1].len <= Len(r)
    PROVE  /\ Placed(SubSeq(r, r[1].len + 1, Len(r)), d + 1, fs)
           /\ SubSeq(r, 1, r[1].len) = fs[d + 1] /\ d < Len(fs)
<1>1. PICK m \in Nat : m = r[1].len /\ m \in 1 .. Len(r) /\ 1 \in 1 .. Len(r)
  <2>1. Len(r) \in Nat /\ Len(r) >= 1
    OBVIOUS
  <2>2. r[1].len \in Nat /\ r[1].len >= HDR /\ HDR >= 1
    BY <2>1, ByteType, SizesAssumption
  <2> QED
    BY <2>1, <2>2, SizesAssumption
<1> DEFINE s == SubSeq(r, m + 1, Len(r))
           l == Len(r)
<1>2. /\ s \in Seq(Bytes) /\ Len(s) = l - m /\ l \in Nat
      /\ \A i \in 1 .. l - m : s[i] = r[m + i] /\ m + i \in 1 .. l
  <2>1. m \in 0 .. Len(r) /\ l \in Nat
    BY <1>1
  <2>2. /\ s \in Seq(Bytes) /\ Len(s) = l - m
        /\ \A i \in 1 .. l - m : s[i] = r[m + i]
    BY <2>1, SubAt
  <2> HIDE DEF s
  <2>3. \A i \in 1 .. l - m : m + i \in 1 .. l
    BY <1>1, <2>1
  <2> QED
    BY <2>1, <2>2, <2>3
<1>3. r[1].at = 1 /\ r[1].frame = d + 1 /\ d + 1 <= Len(fs) /\ Len(fs) \in Nat
      /\ fs[d + 1] = Frame(d + 1, m)
  BY <1>1 DEF Placed
<1>4. \A i \in 1 .. m : r[i] = [frame |-> d + 1, at |-> i, len |-> m]
  <2> SUFFICES ASSUME NEW i \in 1 .. m PROVE r[i] = [frame |-> d + 1, at |-> i, len |-> m]
    OBVIOUS
  <2>1. i \in 1 .. Len(r) /\ Same(r, 1, i)
    BY <1>1, <1>3 DEF Same
  <2>2. r[i] = [frame |-> r[1].frame, at |-> r[1].at + (i - 1), len |-> r[1].len]
    BY <1>1, <2>1 DEF Placed
  <2>3. r[1].at + (i - 1) = i
    BY <1>1, <1>3
  <2> QED
    BY <1>1, <1>3, <2>2, <2>3
<1>5. SubSeq(r, 1, m) = fs[d + 1]
  <2>1. d + 1 \in 1 .. MaxFrames /\ m \in Lens
    BY <1>1, <1>3, ByteType
  <2>2. /\ Frame(d + 1, m) \in Seq(Bytes) /\ Len(Frame(d + 1, m)) = m
        /\ \A i \in 1 .. m : Frame(d + 1, m)[i] = [frame |-> d + 1, at |-> i, len |-> m]
    BY <2>1, FrameType
  <2>3. /\ SubSeq(r, 1, m) \in Seq(Bytes) /\ Len(SubSeq(r, 1, m)) = m
        /\ \A i \in 1 .. m : SubSeq(r, 1, m)[i] = r[i]
    <3>1. m \in 0 .. Len(r)
      BY <1>1
    <3> QED
      BY <3>1, SubAt
  <2> DEFINE p == SubSeq(r, 1, m)
             f == Frame(d + 1, m)
  <2>4. /\ p \in Seq(Bytes) /\ f \in Seq(Bytes) /\ Len(p) = Len(f) /\ Len(p) = m
        /\ \A i \in 1 .. m : p[i] = f[i]
    BY <1>4, <2>2, <2>3
  <2> HIDE DEF p, f
  <2>5. p = f
    BY <2>4, SameSeq
  <2> QED
    BY <1>3, <2>5 DEF p, f
<1> HIDE DEF s, l
<1>6. ASSUME NEW i \in 1 .. Len(s)
      PROVE  /\ s[i].at <= s[i].len /\ s[i].frame <= Len(fs)
             /\ fs[s[i].frame] = Frame(s[i].frame, s[i].len)
  <2>1. s[i] = r[m + i] /\ m + i \in 1 .. l
    BY <1>2
  <2> QED
    BY <2>1 DEF Placed, l
<1>7. ASSUME NEW i \in 1 .. Len(s), NEW j \in 1 .. Len(s), Same(s, i, j)
      PROVE  s[j] = [frame |-> s[i].frame, at |-> s[i].at + (j - i), len |-> s[i].len]
  <2>1. s[i] = r[m + i] /\ m + i \in 1 .. l /\ s[j] = r[m + j] /\ m + j \in 1 .. l
    BY <1>2
  <2>2. (m + j) - (m + i) = j - i /\ (i <= j => m + i <= m + j)
    BY <1>1, <1>2, SMTT(60)
  <2>3. Same(r, m + i, m + j)
    BY <1>7, <2>1, <2>2 DEF Same
  <2> QED
    BY <2>1, <2>2, <2>3 DEF Placed, l
<1>8. ASSUME NEW i \in 1 .. Len(s), NEW j \in 1 .. Len(s), j - i = s[i].len - s[i].at + 1
      PROVE  s[j].at = 1 /\ s[j].frame = s[i].frame + 1
  <2>1. s[i] = r[m + i] /\ m + i \in 1 .. l /\ s[j] = r[m + j] /\ m + j \in 1 .. l
    BY <1>2
  <2>2. (m + j) - (m + i) = j - i
    BY <1>1, <1>2
  <2>3. (m + j) - (m + i) = r[m + i].len - r[m + i].at + 1
    BY <1>8, <2>1, <2>2
  <2> HIDE DEF l
  <2>4. r[m + j].at = 1 /\ r[m + j].frame = r[m + i].frame + 1
    <3>1. \A x, y \in 1 .. l :
            y - x = r[x].len - r[x].at + 1 => r[y].at = 1 /\ r[y].frame = r[x].frame + 1
      BY DEF Placed, l
    <3> QED
      BY <2>1, <2>3, <3>1
  <2> QED
    BY <2>1, <2>4
<1>9. ASSUME s = <<>> PROVE Placed(s, d + 1, fs)
  <2>1. m = l /\ r[l].frame = d + 1
    <3>1. Len(s) = 0
      BY <1>9
    <3>2. m = l
      BY <1>1, <1>2, <3>1 DEF l
    <3>3. r[m] = [frame |-> d + 1, at |-> m, len |-> m]
      BY <1>1, <1>4
    <3> QED
      BY <3>2, <3>3
  <2>2. Len(fs) = d + 1
    BY <2>1 DEF Placed, l
  <2> QED
    BY <1>3, <1>6, <1>7, <1>8, <1>9, <2>2 DEF Placed
<1>10. ASSUME s # <<>> PROVE Placed(s, d + 1, fs)
  <2>1. Len(s) >= 1 /\ m + 1 \in 1 .. l /\ s[1] = r[m + 1] /\ s[Len(s)] = r[l]
    <3>1. Len(s) \in Nat /\ Len(s) # 0
      BY <1>2, <1>10
    <3>2. 1 \in 1 .. l - m /\ l - m \in 1 .. l - m /\ m + (l - m) = l
      BY <1>1, <1>2, <3>1
    <3> QED
      BY <1>1, <1>2, <3>1, <3>2
  <2>2. s[1].at = 1 /\ s[1].frame = (d + 1) + 1
    <3>1. (m + 1) - 1 = r[1].len - r[1].at + 1
      BY <1>1, <1>3
    <3> QED
      <4>1. r[m + 1].at = 1 /\ r[m + 1].frame = r[1].frame + 1
        BY <1>1, <2>1, <3>1 DEF Placed, l
      <4> QED
        BY <1>3, <2>1, <4>1
  <2>3. s[Len(s)].at = s[Len(s)].len /\ s[Len(s)].frame = Len(fs)
    BY <2>1 DEF Placed, l
  <2> QED
    BY <1>6, <1>7, <1>8, <1>10, <2>2, <2>3 DEF Placed
<1>11. Placed(s, d + 1, fs)
  BY <1>9, <1>10
<1> QED
  BY <1>1, <1>3, <1>5, <1>11 DEF s

-----------------------------------------------------------------------------
(* The steps of the reader                                                 *)

\* Pieces put together again, or in another grouping, are the same stream.
LEMMA CatSame ==
    ASSUME NEW S, NEW a \in Seq(S), NEW b \in Seq(S), NEW c \in Seq(S)
    PROVE  a \o (b \o c) = (a \o b) \o c
<1> DEFINE x == a \o (b \o c)
           y == (a \o b) \o c
<1>1. /\ b \o c \in Seq(S) /\ Len(b \o c) = Len(b) + Len(c)
      /\ \A i \in 1 .. Len(b) : (b \o c)[i] = b[i]
      /\ \A i \in Len(b) + 1 .. Len(b) + Len(c) : (b \o c)[i] = c[i - Len(b)]
  BY CatAt
<1>2. /\ a \o b \in Seq(S) /\ Len(a \o b) = Len(a) + Len(b)
      /\ \A i \in 1 .. Len(a) : (a \o b)[i] = a[i]
      /\ \A i \in Len(a) + 1 .. Len(a) + Len(b) : (a \o b)[i] = b[i - Len(a)]
  BY CatAt
<1>3. /\ x \in Seq(S) /\ y \in Seq(S)
      /\ Len(x) = Len(a) + (Len(b) + Len(c)) /\ Len(y) = Len(a) + Len(b) + Len(c)
      /\ Len(a) \in Nat /\ Len(b) \in Nat /\ Len(c) \in Nat
  BY <1>1, <1>2
<1>4. ASSUME NEW i \in 1 .. Len(x) PROVE x[i] = y[i]
  <2>1. CASE i \in 1 .. Len(a)
    <3>1. x[i] = a[i]
      BY <1>1, <2>1, CatAt
    <3>2. y[i] = (a \o b)[i]
      BY <1>2, <1>3, <2>1, CatAt
    <3> QED
      BY <1>2, <2>1, <3>1, <3>2
  <2>2. CASE i \in Len(a) + 1 .. Len(a) + Len(b)
    <3>1. x[i] = (b \o c)[i - Len(a)] /\ i - Len(a) \in 1 .. Len(b)
      BY <1>1, <1>3, <2>2, CatAt
    <3>2. y[i] = (a \o b)[i]
      BY <1>2, <1>3, <2>2, CatAt
    <3> QED
      BY <1>1, <1>2, <2>2, <3>1, <3>2
  <2>3. CASE i \in Len(a) + Len(b) + 1 .. Len(a) + Len(b) + Len(c)
    <3>1. /\ x[i] = (b \o c)[i - Len(a)]
          /\ i - Len(a) \in Len(b) + 1 .. Len(b) + Len(c)
          /\ (i - Len(a)) - Len(b) = i - (Len(a) + Len(b))
      BY <1>1, <1>3, <2>3, CatAt
    <3>2. y[i] = c[i - (Len(a) + Len(b))]
      BY <1>2, <1>3, <2>3, CatAt
    <3> QED
      BY <1>1, <3>1, <3>2
  <2> QED
    BY <1>3, <2>1, <2>2, <2>3
<1>5. Len(x) = Len(y)
  BY <1>3
<1> HIDE DEF x, y
<1>6. x = y
  BY <1>3, <1>4, <1>5, SameSeq
<1> QED
  BY <1>6 DEF x, y

\* A sequence cut in two and put together.
LEMMA CutSame ==
    ASSUME NEW S, NEW s \in Seq(S), NEW m \in 0 .. Len(s)
    PROVE  SubSeq(s, 1, m) \o SubSeq(s, m + 1, Len(s)) = s
<1> DEFINE p == SubSeq(s, 1, m)
           q == SubSeq(s, m + 1, Len(s))
<1>1. /\ p \in Seq(S) /\ Len(p) = m /\ \A i \in 1 .. m : p[i] = s[i]
      /\ q \in Seq(S) /\ Len(q) = Len(s) - m /\ \A i \in 1 .. Len(s) - m : q[i] = s[m + i]
  BY SubAt
<1> HIDE DEF p, q
<1>2. /\ p \o q \in Seq(S) /\ Len(p \o q) = Len(s) /\ Len(s) \in Nat /\ m \in Nat
      /\ \A i \in 1 .. m : (p \o q)[i] = p[i]
      /\ \A i \in m + 1 .. Len(s) : (p \o q)[i] = q[i - m]
  <2>1. Len(p) + Len(q) = Len(s)
    BY <1>1
  <2> QED
    BY <1>1, <2>1, CatAt
<1>3. ASSUME NEW i \in 1 .. Len(s) PROVE (p \o q)[i] = s[i]
  <2>1. CASE i \in 1 .. m
    BY <1>1, <1>2, <2>1
  <2>2. CASE i \in m + 1 .. Len(s)
    <3>1. i - m \in 1 .. Len(s) - m /\ m + (i - m) = i
      BY <1>2, <2>2
    <3> QED
      BY <1>1, <1>2, <2>2, <3>1
  <2> QED
    BY <1>2, <2>1, <2>2
<1>4. p \o q = s
  BY <1>2, <1>3, SameSeq
<1> QED
  BY <1>4 DEF p, q

\* A packet taken from the front of the buffer is taken from the stream.
LEMMA CutFront ==
    ASSUME NEW S, NEW a \in Seq(S), NEW b \in Seq(S), NEW m \in 0 .. Len(a)
    PROVE  /\ SubSeq(a, m + 1, Len(a)) \o b = SubSeq(a \o b, m + 1, Len(a \o b))
           /\ SubSeq(a, 1, m) = SubSeq(a \o b, 1, m)
<1> DEFINE s == a \o b
           q == SubSeq(a, m + 1, Len(a))
           u == SubSeq(s, m + 1, Len(s))
           p == SubSeq(a, 1, m)
           v == SubSeq(s, 1, m)
<1>1. /\ s \in Seq(S) /\ Len(s) = Len(a) + Len(b) /\ Len(a) \in Nat /\ Len(b) \in Nat
      /\ \A i \in 1 .. Len(a) : s[i] = a[i]
      /\ \A i \in Len(a) + 1 .. Len(a) + Len(b) : s[i] = b[i - Len(a)]
  BY CatAt
<1>2. /\ q \in Seq(S) /\ Len(q) = Len(a) - m /\ \A i \in 1 .. Len(a) - m : q[i] = a[m + i]
      /\ p \in Seq(S) /\ Len(p) = m /\ \A i \in 1 .. m : p[i] = a[i]
  BY SubAt
<1> HIDE DEF s
<1>3. m \in 0 .. Len(s) /\ m \in Nat
  BY <1>1
<1>4. /\ u \in Seq(S) /\ Len(u) = Len(s) - m /\ \A i \in 1 .. Len(s) - m : u[i] = s[m + i]
      /\ v \in Seq(S) /\ Len(v) = m /\ \A i \in 1 .. m : v[i] = s[i]
  BY <1>1, <1>3, SubAt
<1> HIDE DEF p, q, u, v
<1>5. p = v
  <2>1. \A i \in 1 .. m : i \in 1 .. Len(a)
    BY <1>1, <1>3
  <2>2. \A i \in 1 .. Len(p) : p[i] = v[i]
    BY <1>1, <1>2, <1>4, <2>1
  <2> QED
    BY <1>2, <1>4, <2>2, SameSeq
<1>6. /\ q \o b \in Seq(S) /\ Len(q \o b) = Len(q) + Len(b)
      /\ \A i \in 1 .. Len(q) : (q \o b)[i] = q[i]
      /\ \A i \in Len(q) + 1 .. Len(q) + Len(b) : (q \o b)[i] = b[i - Len(q)]
  BY <1>2, CatAt, ZenonT(60)
<1>7. Len(q \o b) = Len(u) /\ Len(q) + Len(b) = Len(s) - m
  BY <1>1, <1>2, <1>3, <1>4, <1>6
<1>8. ASSUME NEW i \in 1 .. Len(q \o b) PROVE (q \o b)[i] = u[i]
  <2>1. u[i] = s[m + i]
    BY <1>4, <1>7
  <2>2. CASE i \in 1 .. Len(q)
    <3>1. m + i \in 1 .. Len(a) /\ i \in 1 .. Len(a) - m
      BY <1>1, <1>2, <1>3, <2>2
    <3> QED
      BY <1>1, <1>2, <1>6, <2>1, <2>2, <3>1
  <2>3. CASE i \in Len(q) + 1 .. Len(q) + Len(b)
    <3>1. m + i \in Len(a) + 1 .. Len(a) + Len(b) /\ (m + i) - Len(a) = i - Len(q)
      BY <1>1, <1>2, <1>3, <2>3
    <3> QED
      BY <1>1, <1>6, <2>1, <2>3, <3>1
  <2> QED
    BY <1>1, <1>2, <1>3, <1>6, <2>2, <2>3
<1>9. q \o b = u
  BY <1>4, <1>6, <1>7, <1>8, SameSeq
<1> QED
  BY <1>5, <1>9 DEF p, q, s, u, v

\* The header of a packet is read once all of it is there, and read right.
LEMMA HeaderRead ==
    ASSUME PlaceInv, Len(packetBuf) >= HDR
    PROVE  /\ GetSizeInByteArray(packetBuf) = {packetBuf[1].len}
           /\ packetBuf # <<>> /\ packetBuf[1].len \in 0 .. BUF
<1>1. packetBuf \in Seq(Bytes) /\ stream \in Seq(Bytes) /\ HDR \in Nat /\ HDR >= 1
  BY SizesAssumption DEF PlaceInv, TypeOK
<1>2. /\ Rest \in Seq(Bytes) /\ Len(Rest) = Len(packetBuf) + Len(stream)
      /\ Len(packetBuf) \in Nat /\ Len(stream) \in Nat
      /\ \A i \in 1 .. Len(packetBuf) : Rest[i] = packetBuf[i]
  BY <1>1, CatAt DEF Rest
<1>3. Len(packetBuf) >= 1 /\ Len(Rest) >= 1 /\ Rest # <<>> /\ packetBuf # <<>>
      /\ 1 \in 1 .. Len(packetBuf) /\ 1 \in 1 .. Len(Rest)
  BY <1>1, <1>2
<1>4. Rest[1].at = 1 /\ Rest[1].len \in Nat /\ Rest[1].len >= HDR /\ Rest[1].len <= BUF
  BY <1>2, <1>3, ByteType DEF PlaceInv, Placed
<1>5. ASSUME NEW i \in 1 .. HDR
      PROVE  packetBuf[i].frame = packetBuf[1].frame /\ packetBuf[i].at = i
  <2>1. i \in 1 .. Len(packetBuf) /\ i \in 1 .. Len(Rest)
    BY <1>1, <1>2
  <2>2. Same(Rest, 1, i)
    BY <1>1, <1>4 DEF Same
  <2>3. Rest[i] = [frame |-> Rest[1].frame, at |-> Rest[1].at + (i - 1), len |-> Rest[1].len]
    BY <1>3, <2>1, <2>2 DEF PlaceInv, Placed
  <2>4. Rest[i].frame = Rest[1].frame /\ Rest[i].at = i
    BY <1>1, <1>4, <2>3
  <2> QED
    BY <1>2, <1>3, <2>1, <2>4
<1>6. packetBuf[1].len = Rest[1].len
  BY <1>2, <1>3
<1>7. packetBuf[1].len \in 0 .. BUF
  BY <1>4, <1>6, SizesAssumption
<1> QED
  BY <1>3, <1>5, <1>7 DEF GetSizeInByteArray

\* A complete packet at the front of the buffer is the next one.
LEMMA FrontIsNext ==
    ASSUME PlaceInv, Handle
    PROVE  /\ Placed(Rest', Len(delivered) + 1, frames)
           /\ SubSeq(packetBuf, 1, packetSize) = frames[Len(delivered) + 1]
           /\ Len(delivered) < Len(frames)
<1>1. packetBuf \in Seq(Bytes) /\ stream \in Seq(Bytes) /\ frames \in Seq(Seq(Bytes))
      /\ Len(delivered) \in Nat /\ Placed(Rest, Len(delivered), frames)
  BY DEF PlaceInv, TypeOK
<1>2. packetBuf # <<>> /\ packetSize = packetBuf[1].len /\ Len(packetBuf) >= packetSize
      /\ packetBuf' = SubSeq(packetBuf, packetSize + 1, Len(packetBuf)) /\ stream' = stream
      /\ packetSize \in 0 .. BUF
  BY DEF PlaceInv, TypeOK, InStep, Handle
<1>3. packetSize \in 0 .. Len(packetBuf)
  BY <1>1, <1>2, SizesAssumption
<1>4. /\ Rest' = SubSeq(Rest, packetSize + 1, Len(Rest))
      /\ SubSeq(packetBuf, 1, packetSize) = SubSeq(Rest, 1, packetSize)
  BY <1>1, <1>2, <1>3, CutFront DEF Rest
<1>5. /\ Rest \in Seq(Bytes) /\ Len(Rest) = Len(packetBuf) + Len(stream)
      /\ Len(packetBuf) \in Nat /\ Len(stream) \in Nat
      /\ \A i \in 1 .. Len(packetBuf) : Rest[i] = packetBuf[i]
  BY <1>1, CatAt DEF Rest
<1>6. 1 \in 1 .. Len(packetBuf)
  BY <1>1, <1>2
<1>7. Rest # <<>> /\ Rest[1].len = packetSize /\ packetSize <= Len(Rest)
  BY <1>2, <1>3, <1>5, <1>6
<1> DEFINE d == Len(delivered)
<1> HIDE DEF d
<1>8. /\ Placed(SubSeq(Rest, Rest[1].len + 1, Len(Rest)), d + 1, frames)
      /\ SubSeq(Rest, 1, Rest[1].len) = frames[d + 1] /\ d < Len(frames)
  BY <1>1, <1>5, <1>7, PlacedHandled DEF d
<1> QED
  BY <1>4, <1>7, <1>8 DEF d

\* The first step: the types.
LEMMA InitPlace == Init => PlaceInv
<1> SUFFICES ASSUME Init PROVE PlaceInv
  OBVIOUS
<1>1. TypeOK
  <2>1. MaxFrames \in Nat /\ BUF \in Nat
    BY SizesAssumption
  <2>2. Len(<<>>) = 0 /\ <<>> \in Seq(Bytes) /\ <<>> \in Seq(Seq(Bytes))
    OBVIOUS
  <2>3. frames \in Seq(Seq(Bytes)) /\ Len(frames) <= MaxFrames
        /\ stream \in Seq(Bytes) /\ delivered \in Seq(Seq(Bytes))
    BY <2>1, <2>2 DEF Init
  <2>4. packetBuf \in Seq(Bytes) /\ Len(packetBuf) <= BUF /\ packetSize \in 0 .. BUF
    BY <2>1, <2>2 DEF Init
  <2> QED
    BY <2>3, <2>4 DEF Init, TypeOK
<1>2. Rest = <<>> /\ Len(frames) = 0 /\ Len(delivered) = 0
  BY DEF Init, Rest
<1>3. Placed(Rest, Len(delivered), frames)
  <2>1. Len(Rest) = 0
    BY <1>2
  <2> QED
    BY <1>2, <2>1 DEF Placed
<1>4. InStep
  BY SizesAssumption DEF Init, InStep
<1> QED
  BY <1>1, <1>3, <1>4 DEF PlaceInv

LEMMA SendsPlace == ASSUME PlaceInv, NEW len \in Lens, PeerSends(len) PROVE PlaceInv'
<1> DEFINE frame == Frame(Len(frames) + 1, len)
<1>1. /\ frames' = Append(frames, frame) /\ stream' = stream \o frame
      /\ UNCHANGED <<window, pc, packetBuf, packetSize, recvStep, delivered, overflowed>>
      /\ Len(frames) < MaxFrames
  BY DEF PeerSends
<1>2. /\ packetBuf \in Seq(Bytes) /\ stream \in Seq(Bytes) /\ frames \in Seq(Seq(Bytes))
      /\ Len(delivered) \in Nat /\ Len(frames) \in Nat /\ Len(frames) + 1 \in 1 .. MaxFrames
  BY <1>1, SizesAssumption DEF PlaceInv, TypeOK
<1>3. frame \in Seq(Bytes)
  BY <1>2, FrameType
<1>4. Placed(Rest \o frame, Len(delivered), Append(frames, frame))
  <2>1. Rest \in Seq(Bytes)
    BY <1>2 DEF Rest
  <2> QED
    BY <1>1, <1>2, <2>1, PlacedSent DEF PlaceInv
<1> HIDE DEF frame
<1>5. Rest' = Rest \o frame
  BY <1>1, <1>2, <1>3, CatSame DEF Rest
<1>6. Placed(Rest, Len(delivered), frames)'
  BY <1>1, <1>4, <1>5
<1>7. TypeOK'
  <2>1. frames' \in Seq(Seq(Bytes)) /\ Len(frames') = Len(frames) + 1 /\ stream' \in Seq(Bytes)
    BY <1>1, <1>2, <1>3
  <2>2. Len(frames') <= MaxFrames
    BY <1>2, <2>1, SizesAssumption
  <2> QED
    BY <1>1, <2>1, <2>2 DEF PlaceInv, TypeOK
<1>8. InStep'
  BY <1>1 DEF PlaceInv, InStep
<1> QED
  BY <1>6, <1>7, <1>8 DEF PlaceInv

\* A completion carries no more than is on its way.
LEMMA TransferFits ==
    ASSUME TypeOK, NEW inSize \in Transfers
    PROVE  inSize \in 0 .. Len(stream) /\ inSize \in Nat
<1>1. Min({BUF, Len(stream)}) \in Int /\ Min({BUF, Len(stream)}) <= Len(stream)
  <2>1. BUF \in Int /\ Len(stream) \in Int
    BY SizesAssumption DEF TypeOK
  <2>2. CASE BUF <= Len(stream)
    <3>1. /\ BUF \in {BUF, Len(stream)}
          /\ \A y \in {BUF, Len(stream)} : BUF <= y
      BY <2>1, <2>2
    <3>2. \A x \in {BUF, Len(stream)} :
            (\A y \in {BUF, Len(stream)} : x <= y) => x = BUF
      BY <2>1, <2>2
    <3>3. Min({BUF, Len(stream)}) = BUF
      BY <3>1, <3>2 DEF Min
    <3> QED
      BY <2>1, <2>2, <3>3
  <2>3. CASE Len(stream) <= BUF
    <3>1. /\ Len(stream) \in {BUF, Len(stream)}
          /\ \A y \in {BUF, Len(stream)} : Len(stream) <= y
      BY <2>1, <2>3
    <3>2. \A x \in {BUF, Len(stream)} :
            (\A y \in {BUF, Len(stream)} : x <= y) => x = Len(stream)
      BY <2>1, <2>3
    <3>3. Min({BUF, Len(stream)}) = Len(stream)
      BY <3>1, <3>2 DEF Min
    <3> QED
      BY <2>1, <3>3
  <2> QED
    BY <2>1, <2>2, <2>3
<1> QED
  BY <1>1 DEF TypeOK, Transfers

LEMMA RecvPlace == ASSUME PlaceInv, NEW inSize \in Transfers, Recv(inSize) PROVE PlaceInv'
<1> DEFINE got == SubSeq(stream, 1, inSize)
           left == SubSeq(stream, inSize + 1, Len(stream))
<1>1. /\ packetBuf' = packetBuf \o got /\ stream' = left /\ pc' = "loop" /\ pc = "recv"
      /\ UNCHANGED <<window, frames, packetSize, recvStep, delivered, overflowed>>
      /\ Len(packetBuf) + inSize <= BUF
  BY DEF Recv
<1>2. packetBuf \in Seq(Bytes) /\ stream \in Seq(Bytes) /\ Len(packetBuf) \in Nat
      /\ Len(stream) \in Nat
  BY DEF PlaceInv, TypeOK
<1>3. inSize \in 0 .. Len(stream) /\ inSize \in Nat
  BY TransferFits DEF PlaceInv
<1>4. /\ got \in Seq(Bytes) /\ Len(got) = inSize /\ left \in Seq(Bytes)
      /\ got \o left = stream
  BY <1>2, <1>3, SubAt, CutSame
<1> HIDE DEF got, left
<1>5. Rest' = Rest
  <2>1. packetBuf \o (got \o left) = (packetBuf \o got) \o left
    <3>1. packetBuf \in Seq(Bytes) /\ got \in Seq(Bytes) /\ left \in Seq(Bytes)
      BY <1>2, <1>4
    <3>2. \A a, b, c \in Seq(Bytes) : a \o (b \o c) = (a \o b) \o c
      BY CatSame
    <3> QED
      BY <3>1, <3>2, Zenon
  <2>2. Rest' = (packetBuf \o got) \o left
    BY <1>1 DEF Rest
  <2> QED
    BY <1>4, <2>1, <2>2 DEF Rest
<1>6. Placed(Rest, Len(delivered), frames)'
  BY <1>1, <1>5 DEF PlaceInv
<1>7. /\ packetBuf' \in Seq(Bytes) /\ Len(packetBuf') = Len(packetBuf) + inSize
      /\ \A i \in 1 .. Len(packetBuf) : packetBuf'[i] = packetBuf[i]
  BY <1>1, <1>2, <1>4, CatAt
<1>8. TypeOK'
  BY <1>1, <1>4, <1>7 DEF PlaceInv, TypeOK
<1>9. InStep'
  <2>1. ASSUME packetBuf # <<>> PROVE packetBuf' # <<>> /\ packetBuf'[1] = packetBuf[1]
    <3>1. 1 \in 1 .. Len(packetBuf)
      BY <1>2, <2>1
    <3>2. Len(packetBuf') >= 1
      BY <1>2, <1>3, <1>7, <3>1
    <3> QED
      BY <1>7, <3>1, <3>2
  <2> QED
    BY <1>1, <2>1 DEF PlaceInv, InStep
<1> QED
  BY <1>6, <1>8, <1>9 DEF PlaceInv

LEMMA HandlePlace == ASSUME PlaceInv, Handle PROVE PlaceInv'
<1>1. /\ delivered' = Append(delivered, SubSeq(packetBuf, 1, packetSize))
      /\ packetBuf' = SubSeq(packetBuf, packetSize + 1, Len(packetBuf))
      /\ recvStep' = "RECV_LEN" /\ (pc' = "loop" \/ (pc' = "recv" /\ packetBuf' = <<>>))
      /\ UNCHANGED <<window, frames, stream, packetSize, overflowed>>
      /\ Len(packetBuf) >= packetSize
  <2>1. pc' = IF packetBuf' # <<>> THEN "loop" ELSE "recv"
    BY DEF Handle
  <2>2. pc' = "loop" \/ (pc' = "recv" /\ packetBuf' = <<>>)
    BY <2>1
  <2> QED
    BY <2>2 DEF Handle
<1>2. /\ packetBuf \in Seq(Bytes) /\ Len(packetBuf) <= BUF /\ packetSize \in 0 .. Len(packetBuf)
      /\ delivered \in Seq(Seq(Bytes))
  BY <1>1, SizesAssumption DEF PlaceInv, TypeOK
<1>3. /\ packetBuf' \in Seq(Bytes) /\ Len(packetBuf') = Len(packetBuf) - packetSize
      /\ SubSeq(packetBuf, 1, packetSize) \in Seq(Bytes)
  BY <1>1, <1>2, SubAt
<1>4. Len(packetBuf') <= BUF
  BY <1>2, <1>3, SizesAssumption
<1>5. delivered' \in Seq(Seq(Bytes)) /\ Len(delivered') = Len(delivered) + 1
  <2> DEFINE p == SubSeq(packetBuf, 1, packetSize)
  <2>1. p \in Seq(Bytes) /\ delivered' = Append(delivered, p)
    BY <1>1, <1>3
  <2> HIDE DEF p
  <2> QED
    BY <1>2, <2>1
<1>6. TypeOK'
  BY <1>1, <1>3, <1>4, <1>5 DEF PlaceInv, TypeOK
<1>7. Placed(Rest, Len(delivered), frames)'
  <2>1. Placed(Rest', Len(delivered) + 1, frames)
    BY FrontIsNext
  <2> QED
    BY <1>1, <1>5, <2>1
<1>8. InStep'
  <2>1. packetBuf' = <<>> => Len(packetBuf') < HDR
    BY SizesAssumption
  <2> QED
    BY <1>1, <2>1 DEF InStep
<1> QED
  BY <1>6, <1>7, <1>8 DEF PlaceInv

\* Every step keeps the reader's place.
LEMMA NextPlace == PlaceInv /\ [Next]_vars => PlaceInv'
<1> SUFFICES ASSUME PlaceInv, [Next]_vars PROVE PlaceInv'
  OBVIOUS
<1>1. CASE \E len \in Lens : PeerSends(len)
  BY <1>1, SendsPlace
<1>2. CASE \E inSize \in Transfers : Recv(inSize)
  BY <1>2, RecvPlace
<1>3. CASE \E inSize \in Transfers : RecvOverflow(inSize)
  BY <1>3 DEF RecvOverflow, PlaceInv, TypeOK, Rest, InStep
<1>4. CASE ReadLen
  <2>1. packetSize' = packetBuf[1].len /\ packetSize' \in 0 .. BUF /\ packetBuf # <<>>
        /\ recvStep' = "RECV_BODY" /\ pc = "loop"
        /\ UNCHANGED <<window, frames, stream, pc, packetBuf, delivered, overflowed>>
    BY <1>4, HeaderRead DEF ReadLen
  <2>2. Placed(Rest, Len(delivered), frames)'
    BY <2>1 DEF PlaceInv, Rest
  <2> QED
    BY <2>1, <2>2 DEF PlaceInv, TypeOK, InStep
<1>5. CASE Handle
  BY <1>5, HandlePlace
<1>6. CASE Repost
  <2>1. Placed(Rest, Len(delivered), frames)'
    BY <1>6 DEF Repost, PlaceInv, Rest
  <2>2. TypeOK' /\ InStep'
    BY <1>6 DEF Repost, PlaceInv, TypeOK, InStep
  <2> QED
    BY <2>1, <2>2 DEF PlaceInv
<1>7. CASE UNCHANGED vars
  <2>1. Placed(Rest, Len(delivered), frames)'
    BY <1>7 DEF vars, PlaceInv, Rest
  <2>2. TypeOK' /\ InStep'
    BY <1>7 DEF vars, PlaceInv, TypeOK, InStep
  <2> QED
    BY <2>1, <2>2 DEF PlaceInv
<1> QED
  BY <1>1, <1>2, <1>3, <1>4, <1>5, <1>6, <1>7 DEF Next, Complete, RecvPacket

-----------------------------------------------------------------------------
(* The theorems                                                            *)

LEMMA AlwaysPlace == Spec => []PlaceInv
  BY InitPlace, NextPlace, PTL DEF Spec

\* The variables keep their types; in particular what _packetBuf holds never
\* exceeds its size in the states without an overflow.
THEOREM TypeCorrect == Spec => []TypeOK
<1>1. PlaceInv => TypeOK
  BY DEF PlaceInv
<1> QED
  BY <1>1, AlwaysPlace, PTL

\* However the stream is cut, RecvPacket finds the start of every packet, keeps
\* the length it read across completions, and never waits for the network with
\* a complete packet in its buffer.
THEOREM KeepsItsPlace == Spec => [](StepAgrees /\ WaitsOnlyForMore)
<1>1. PlaceInv => StepAgrees /\ WaitsOnlyForMore
  <2> SUFFICES ASSUME PlaceInv PROVE StepAgrees /\ WaitsOnlyForMore
    OBVIOUS
  <2>1. packetBuf # <<>> => packetBuf[1].at = 1
    <3> SUFFICES ASSUME packetBuf # <<>> PROVE packetBuf[1].at = 1
      OBVIOUS
    <3>1. packetBuf \in Seq(Bytes) /\ stream \in Seq(Bytes)
      BY DEF PlaceInv, TypeOK
    <3>2. /\ Rest \in Seq(Bytes) /\ Len(Rest) = Len(packetBuf) + Len(stream)
          /\ Len(packetBuf) \in Nat /\ Len(stream) \in Nat
          /\ \A i \in 1 .. Len(packetBuf) : Rest[i] = packetBuf[i]
      BY <3>1, CatAt DEF Rest
    <3>3. 1 \in 1 .. Len(packetBuf) /\ Len(Rest) # 0
      BY <3>1, <3>2
    <3>4. Rest # <<>> /\ Rest[1] = packetBuf[1]
      BY <3>2, <3>3
    <3> QED
      BY <3>4 DEF PlaceInv, Placed
  <2>2. recvStep \in {"RECV_LEN", "RECV_BODY"}
    BY DEF PlaceInv, TypeOK
  <2> QED
    BY <2>1, <2>2 DEF PlaceInv, InStep, StepAgrees, WaitsOnlyForMore
<1> QED
  BY <1>1, AlwaysPlace, PTL

\* PacketHandler is given the packets of the peer whole, once and in order.
THEOREM Refinement == Spec => ImplementsFrameChannel
<1>1. Init => Channel!Init
  BY DEF Init, Channel!Init
<1>2. PlaceInv /\ [Next]_vars => [Channel!Next]_Channel!vars
  <2> SUFFICES ASSUME PlaceInv, [Next]_vars PROVE [Channel!Next]_Channel!vars
    OBVIOUS
  <2>1. CASE \E len \in Lens : PeerSends(len)
    <3>1. PICK len \in Lens : PeerSends(len)
      BY <2>1
    <3>2. Len(frames) + 1 \in 1 .. MaxFrames
      BY <3>1, SizesAssumption DEF PeerSends, PlaceInv, TypeOK
    <3>3. Channel!Send(Frame(Len(frames) + 1, len))
      BY <3>1 DEF PeerSends, Channel!Send
    <3> QED
      BY <3>2, <3>3 DEF Channel!Next
  <2>2. CASE Handle
    <3>1. Channel!Deliver
      BY <2>2, FrontIsNext DEF Handle, Channel!Deliver
    <3> QED
      BY <3>1 DEF Channel!Next
  <2>3. CASE (\E inSize \in Transfers : Recv(inSize) \/ RecvOverflow(inSize)) \/ ReadLen \/ Repost
    BY <2>3 DEF Recv, RecvOverflow, ReadLen, Repost, Channel!vars
  <2>4. CASE UNCHANGED vars
    BY <2>4 DEF vars, Channel!vars
  <2> QED
    BY <2>1, <2>2, <2>3, <2>4 DEF Next, Complete, RecvPacket
<1> QED
  BY <1>1, <1>2, AlwaysPlace, PTL DEF Spec, ImplementsFrameChannel, Channel!Spec

-----------------------------------------------------------------------------
(* The bytes                                                               *)

\* A set of numbers has a least element.
LEMMA Least ==
    ASSUME NEW S \in SUBSET Nat, S # {}
    PROVE  \E n \in S : \A m \in S : n <= m
<1>1. PICK n \in S : \A m \in S : ~(<<m, n>> \in OpToRel(<, Nat))
  BY NatLessThanWellFounded, WFMin
<1>2. \A a, b \in Nat : a < b => <<a, b>> \in OpToRel(<, Nat)
  BY Zenon DEF OpToRel
<1>3. \A m \in S : ~(m < n)
  BY <1>1, <1>2, Zenon
<1> QED
  BY <1>3

\* Induction, for a set of numbers.
LEMMA Induction ==
    ASSUME NEW S, 0 \in S, \A n \in Nat : n \in S => n + 1 \in S
    PROVE  Nat \subseteq S
<1> SUFFICES ASSUME Nat \ S # {} PROVE FALSE
  OBVIOUS
<1>1. PICK n \in Nat \ S : \A m \in Nat \ S : n <= m
  BY Least
<1>2. n # 0 /\ n - 1 \in Nat /\ n - 1 \in S
  BY <1>1
<1>3. (n - 1) + 1 \in S
  BY <1>2
<1> QED
  BY <1>1, <1>3

\* f gathers the first n sequences of ss from the front.
Gathers(f, ss, n) == f = [i \in 1 .. n |-> IF i = 1 THEN ss[i] ELSE f[i - 1] \o ss[i]]

\* There is such a function, and one of a longer sequence agrees with it.
LEMMA GathersExists ==
    ASSUME NEW ss, NEW n \in Nat
    PROVE  \E f : Gathers(f, ss, n)
<1> DEFINE S == {k \in Nat : \E f : Gathers(f, ss, k)}
<1>1. 0 \in S
  <2>1. Gathers([i \in 1 .. 0 |-> 0], ss, 0)
    BY DEF Gathers
  <2> QED
    BY <2>1
<1>2. ASSUME NEW k \in Nat, k \in S PROVE k + 1 \in S
  <2>1. PICK f : Gathers(f, ss, k)
    BY <1>2
  <2> DEFINE g == [i \in 1 .. k + 1 |->
                      IF i <= k THEN f[i] ELSE IF i = 1 THEN ss[i] ELSE f[i - 1] \o ss[i]]
  <2>2. \A i \in 1 .. k : f[i] = IF i = 1 THEN ss[i] ELSE f[i - 1] \o ss[i]
    BY <2>1, Zenon DEF Gathers
  <2>3. \A i \in 1 .. k + 1 : g[i] = IF i = 1 THEN ss[i] ELSE g[i - 1] \o ss[i]
    BY <2>2
  <2>4. Gathers(g, ss, k + 1)
    <3>1. g = [i \in 1 .. k + 1 |-> g[i]]
      OBVIOUS
    <3> HIDE DEF g
    <3> QED
      BY <2>3, <3>1, Zenon DEF Gathers
  <2> QED
    BY <2>4
<1>3. Nat \subseteq S
  BY <1>1, <1>2, Induction
<1> QED
  BY <1>3

LEMMA GathersUnique ==
    ASSUME NEW ss, NEW tt, NEW f, NEW g, NEW m \in Nat, NEW n \in Nat,
           Gathers(f, ss, m), Gathers(g, tt, n), m <= n,
           \A i \in 1 .. m : ss[i] = tt[i]
    PROVE  \A i \in 1 .. m : f[i] = g[i]
<1> DEFINE S == {k \in Nat : k \in 1 .. m => f[k] = g[k]}
<1>1. /\ \A i \in 1 .. m : f[i] = IF i = 1 THEN ss[i] ELSE f[i - 1] \o ss[i]
      /\ \A i \in 1 .. n : g[i] = IF i = 1 THEN tt[i] ELSE g[i - 1] \o tt[i]
  BY Zenon DEF Gathers
<1>2. 0 \in S
  OBVIOUS
<1>3. ASSUME NEW k \in Nat, k \in S, k + 1 \in 1 .. m PROVE f[k + 1] = g[k + 1]
  <2>0. k + 1 \in 1 .. n
    BY <1>3
  <2>1. CASE k = 0
    BY <1>1, <1>3, <2>0, <2>1
  <2>2. CASE k # 0
    <3>1. f[k] = g[k] /\ ss[k + 1] = tt[k + 1] /\ (k + 1) - 1 = k /\ k + 1 # 1
      BY <1>3, <2>2
    <3>2. f[k + 1] = f[k] \o ss[k + 1] /\ g[k + 1] = g[k] \o tt[k + 1]
      BY <1>1, <1>3, <2>0, <3>1, Zenon
    <3> QED
      BY <3>1, <3>2
  <2> QED
    BY <2>1, <2>2
<1>4. \A k \in Nat : k \in S => k + 1 \in S
  BY <1>3
<1>5. Nat \subseteq S
  <2> HIDE DEF S
  <2> QED
    BY <1>2, <1>4, Induction
<1> QED
  BY <1>5

\* FlattenSeq of a sequence, by one of its sequences more.
LEMMA FlattenAppend ==
    ASSUME NEW B, NEW ss \in Seq(Seq(B)), NEW t \in Seq(B)
    PROVE  FlattenSeq(Append(ss, t)) = IF ss = <<>> THEN t ELSE FlattenSeq(ss) \o t
<1> DEFINE tt == Append(ss, t)
           n == Len(ss)
           f == CHOOSE f : Gathers(f, ss, n)
           g == CHOOSE g : Gathers(g, tt, n + 1)
<1>1. FlattenSeq(ss) = IF Len(ss) = 0 THEN ss ELSE f[n]
  BY DEF FlattenSeq, Gathers
<1>2. n \in Nat /\ Len(tt) = n + 1 /\ tt[n + 1] = t /\ \A i \in 1 .. n : tt[i] = ss[i]
  OBVIOUS
<1>3. FlattenSeq(tt) = g[n + 1]
  <2>1. FlattenSeq(tt) = IF Len(tt) = 0 THEN tt ELSE (CHOOSE h : Gathers(h, tt, Len(tt)))[Len(tt)]
    BY DEF FlattenSeq, Gathers
  <2> QED
    BY <1>2, <2>1
<1> HIDE DEF tt
<1>4. Gathers(f, ss, n) /\ Gathers(g, tt, n + 1)
  <2>1. n \in Nat /\ n + 1 \in Nat
    BY <1>2
  <2>2. \E h : Gathers(h, ss, n)
    BY <2>1, GathersExists, Zenon
  <2>3. \E h : Gathers(h, tt, n + 1)
    BY <2>1, GathersExists, Zenon
  <2> QED
    BY <2>2, <2>3, Zenon
<1> HIDE DEF f, g
<1>5. \A i \in 1 .. n : f[i] = g[i]
  <2>1. n \in Nat /\ n + 1 \in Nat /\ n <= n + 1 /\ \A i \in 1 .. n : ss[i] = tt[i]
    BY <1>2
  <2> HIDE DEF n
  <2> QED
    BY <1>4, <2>1, GathersUnique, SMT
<1>6. \A i \in 1 .. n + 1 : g[i] = IF i = 1 THEN tt[i] ELSE g[i - 1] \o tt[i]
  BY <1>4, Zenon DEF Gathers
<1>7. CASE n = 0
  BY <1>2, <1>3, <1>6, <1>7 DEF tt
<1>8. CASE n # 0
  <2>1. n + 1 \in 1 .. n + 1 /\ n + 1 # 1 /\ (n + 1) - 1 = n /\ n \in 1 .. n /\ ss # <<>>
    BY <1>2, <1>8
  <2>2. g[n + 1] = g[n] \o tt[n + 1]
    BY <1>6, <2>1, Zenon
  <2> QED
    BY <1>1, <1>2, <1>3, <1>5, <1>8, <2>1, <2>2 DEF tt
<1> QED
  BY <1>7, <1>8

\* Sequences of B put together are a sequence of B.
LEMMA FlattenType ==
    ASSUME NEW B, NEW ss \in Seq(Seq(B))
    PROVE  FlattenSeq(ss) \in Seq(B)
<1> DEFINE S == {k \in Nat : \A tt \in Seq(Seq(B)) : Len(tt) = k => FlattenSeq(tt) \in Seq(B)}
<1>1. 0 \in S
  <2>1. ASSUME NEW tt \in Seq(Seq(B)), Len(tt) = 0 PROVE FlattenSeq(tt) \in Seq(B)
    BY <2>1 DEF FlattenSeq
  <2> QED
    BY <2>1
<1>2. ASSUME NEW k \in Nat, k \in S PROVE k + 1 \in S
  <2>1. ASSUME NEW tt \in Seq(Seq(B)), Len(tt) = k + 1 PROVE FlattenSeq(tt) \in Seq(B)
    <3>1. PICK rr \in Seq(Seq(B)), t \in Seq(B) : tt = Append(rr, t) /\ Len(rr) = k
      <4> DEFINE rr == SubSeq(tt, 1, k)
      <4>1. rr \in Seq(Seq(B)) /\ tt[k + 1] \in Seq(B) /\ Len(rr) = k
        BY <2>1
      <4>2. tt = Append(rr, tt[k + 1])
        BY <2>1
      <4> QED
        BY <4>1, <4>2
    <3>2. FlattenSeq(rr) \in Seq(B)
      BY <1>2, <3>1
    <3>3. FlattenSeq(Append(rr, t)) = IF rr = <<>> THEN t ELSE FlattenSeq(rr) \o t
      BY <3>1, FlattenAppend
    <3> QED
      BY <3>1, <3>2, <3>3
  <2> QED
    BY <2>1
<1>3. Nat \subseteq S
  BY <1>1, <1>2, Induction
<1> QED
  BY <1>3

\* The same, the first sequence included.
LEMMA FlattenMore ==
    ASSUME NEW B, NEW ss \in Seq(Seq(B)), NEW t \in Seq(B)
    PROVE  FlattenSeq(Append(ss, t)) = FlattenSeq(ss) \o t
<1>1. CASE ss = <<>>
  <2>1. FlattenSeq(ss) = <<>>
    BY <1>1 DEF FlattenSeq
  <2>2. <<>> \o t = t
    OBVIOUS
  <2> QED
    BY <1>1, <2>1, <2>2, FlattenAppend
<1>2. CASE ss # <<>>
  BY <1>2, FlattenAppend
<1> QED
  BY <1>1, <1>2

\* What is sent and not handled is buffered or on its way, and is at most what
\* the peer's window allows.
Held == Len(packetBuf) + Len(stream)

KeptInv == StreamKept /\ Held <= window /\ BufferFits

\* What a run of bytes holds is what StreamKept leaves for it.
LEMMA HeldIsUnhandled ==
    ASSUME TypeOK, StreamKept
    PROVE  Unhandled = Held /\ Unhandled \in Nat
<1> DEFINE d == FlattenSeq(delivered)
           f == FlattenSeq(frames)
<1>1. d \in Seq(Bytes) /\ f \in Seq(Bytes) /\ packetBuf \in Seq(Bytes) /\ stream \in Seq(Bytes)
  <2>1. delivered \in Seq(Seq(Bytes)) /\ frames \in Seq(Seq(Bytes))
    BY DEF TypeOK
  <2>2. \A ss \in Seq(Seq(Bytes)) : FlattenSeq(ss) \in Seq(Bytes)
    BY FlattenType
  <2> QED
    BY <2>1, <2>2 DEF TypeOK
<1>2. (d \o packetBuf) \o stream = f
  BY DEF StreamKept
<1>3. Unhandled = Len(f) - Len(d)
  BY DEF Unhandled
<1> HIDE DEF d, f
<1>4. Len((d \o packetBuf) \o stream) = Len(d) + Len(packetBuf) + Len(stream)
  BY <1>1
<1> QED
  BY <1>1, <1>2, <1>3, <1>4 DEF Held

LEMMA KeptInit == Init => KeptInv
<1> SUFFICES ASSUME Init PROVE KeptInv
  OBVIOUS
<1>1. FlattenSeq(<<>>) = <<>>
  BY DEF FlattenSeq
<1>2. StreamKept
  BY <1>1 DEF Init, StreamKept
<1>3. Held = 0 /\ window \in Nat
  BY SizesAssumption DEF Init, Held
<1> QED
  BY <1>2, <1>3 DEF Init, KeptInv, BufferFits

LEMMA SendsKept == ASSUME TypeOK, KeptInv, NEW len \in Lens, PeerSends(len) PROVE KeptInv'
<1> DEFINE frame == Frame(Len(frames) + 1, len)
           d == FlattenSeq(delivered)
<1>1. /\ frames' = Append(frames, frame) /\ stream' = stream \o frame
      /\ UNCHANGED <<window, packetBuf, delivered, overflowed>>
      /\ Unhandled + len <= window
  BY DEF PeerSends
<1>2. /\ packetBuf \in Seq(Bytes) /\ stream \in Seq(Bytes) /\ frames \in Seq(Seq(Bytes))
      /\ delivered \in Seq(Seq(Bytes)) /\ Len(frames) + 1 \in 1 .. MaxFrames
  BY SizesAssumption DEF TypeOK, PeerSends
<1>3. frame \in Seq(Bytes) /\ Len(frame) = len /\ len \in Nat
  BY <1>2, FrameType
<1>4. d \in Seq(Bytes)
  BY <1>2, FlattenType
<1> HIDE DEF frame, d
<1>5. FlattenSeq(frames') = FlattenSeq(frames) \o frame
  BY <1>1, <1>2, <1>3, FlattenMore
<1>6. (d \o packetBuf) \o (stream \o frame) = ((d \o packetBuf) \o stream) \o frame
  <2>1. d \o packetBuf \in Seq(Bytes)
    BY <1>2, <1>4
  <2>2. \A a, b, c \in Seq(Bytes) : a \o (b \o c) = (a \o b) \o c
    BY CatSame
  <2> QED
    BY <1>2, <1>3, <2>1, <2>2, Zenon
<1>7. StreamKept'
  <2>1. (d \o packetBuf) \o stream = FlattenSeq(frames)
    BY DEF KeptInv, StreamKept, d
  <2> QED
    BY <1>1, <1>5, <1>6, <2>1, Zenon DEF StreamKept, d
<1>8. Held' = Held + len
  <2>1. Len(stream \o frame) = Len(stream) + len
    BY <1>2, <1>3, CatAt
  <2>2. Len(packetBuf) \in Nat /\ Len(stream) \in Nat
    BY <1>2
  <2> QED
    BY <1>1, <1>3, <2>1, <2>2 DEF Held
<1>9. Held' <= window'
  BY <1>1, <1>8, HeldIsUnhandled DEF KeptInv
<1> QED
  BY <1>1, <1>7, <1>9 DEF KeptInv, BufferFits

LEMMA RecvKept == ASSUME TypeOK, KeptInv, NEW inSize \in Transfers, Recv(inSize) PROVE KeptInv'
<1> DEFINE got == SubSeq(stream, 1, inSize)
           left == SubSeq(stream, inSize + 1, Len(stream))
           d == FlattenSeq(delivered)
<1>1. /\ packetBuf' = packetBuf \o got /\ stream' = left
      /\ UNCHANGED <<window, frames, delivered, overflowed>>
  BY DEF Recv
<1>2. packetBuf \in Seq(Bytes) /\ stream \in Seq(Bytes) /\ delivered \in Seq(Seq(Bytes))
  BY DEF TypeOK
<1>3. inSize \in 0 .. Len(stream)
  BY TransferFits
<1>4. /\ got \in Seq(Bytes) /\ Len(got) = inSize /\ left \in Seq(Bytes)
      /\ Len(left) = Len(stream) - inSize /\ got \o left = stream
  BY <1>2, <1>3, SubAt, CutSame
<1>5. d \in Seq(Bytes)
  BY <1>2, FlattenType
<1> HIDE DEF got, left, d
<1>6. (d \o (packetBuf \o got)) \o left = (d \o packetBuf) \o stream
  <2>1. d \o packetBuf \in Seq(Bytes)
    BY <1>2, <1>5
  <2>2. \A a, b, c \in Seq(Bytes) : a \o (b \o c) = (a \o b) \o c
    BY CatSame
  <2>3. d \o (packetBuf \o got) = (d \o packetBuf) \o got
    BY <1>2, <1>4, <1>5, <2>2, Zenon
  <2>4. (d \o packetBuf) \o (got \o left) = ((d \o packetBuf) \o got) \o left
    BY <1>4, <2>1, <2>2, Zenon
  <2> QED
    BY <1>4, <2>3, <2>4, Zenon
<1>7. StreamKept'
  BY <1>1, <1>6, Zenon DEF KeptInv, StreamKept, d
<1>8. Held' = Held
  <2>1. Len(packetBuf \o got) = Len(packetBuf) + inSize
    BY <1>2, <1>4, CatAt
  <2>2. Len(packetBuf) \in Nat /\ Len(stream) \in Nat /\ inSize \in Int
    BY <1>2, <1>3
  <2> QED
    BY <1>1, <1>4, <2>1, <2>2 DEF Held
<1> QED
  BY <1>1, <1>7, <1>8 DEF KeptInv, BufferFits

\* The peer's window leaves room for what a completion carries.
LEMMA OverflowKept ==
    ASSUME TypeOK, KeptInv, NEW inSize \in Transfers, RecvOverflow(inSize) PROVE KeptInv'
<1>1. UNCHANGED <<window, frames, stream, packetBuf, delivered>> /\ Len(packetBuf) + inSize > BUF
  BY DEF RecvOverflow
<1>2. inSize <= Len(stream) /\ inSize \in Nat /\ Len(stream) \in Nat /\ Len(packetBuf) \in Nat
  BY TransferFits DEF TypeOK
<1>3. ~(window <= BUF)
  BY <1>1, <1>2, SizesAssumption DEF TypeOK, KeptInv, Held
<1> QED
  BY <1>1, <1>3 DEF KeptInv, StreamKept, Held, BufferFits

LEMMA HandleKept == ASSUME TypeOK, KeptInv, Handle PROVE KeptInv'
<1> DEFINE p == SubSeq(packetBuf, 1, packetSize)
           left == SubSeq(packetBuf, packetSize + 1, Len(packetBuf))
           d == FlattenSeq(delivered)
<1>1. /\ delivered' = Append(delivered, p) /\ packetBuf' = left
      /\ UNCHANGED <<window, frames, stream, overflowed>>
  BY DEF Handle
<1>2. /\ packetBuf \in Seq(Bytes) /\ stream \in Seq(Bytes) /\ delivered \in Seq(Seq(Bytes))
      /\ packetSize \in 0 .. Len(packetBuf)
  BY SizesAssumption DEF TypeOK, Handle
<1>3. /\ p \in Seq(Bytes) /\ left \in Seq(Bytes)
      /\ Len(left) = Len(packetBuf) - packetSize /\ p \o left = packetBuf
  BY <1>2, SubAt, CutSame
<1>4. d \in Seq(Bytes)
  BY <1>2, FlattenType
<1> HIDE DEF p, left, d
<1>5. FlattenSeq(delivered') = d \o p
  BY <1>1, <1>2, <1>3, FlattenMore DEF d
<1>6. (d \o p) \o left = d \o packetBuf
  <2>1. \A a, b, c \in Seq(Bytes) : a \o (b \o c) = (a \o b) \o c
    BY CatSame
  <2> QED
    BY <1>3, <1>4, <2>1, Zenon
<1>7. StreamKept'
  BY <1>1, <1>5, <1>6, Zenon DEF KeptInv, StreamKept, d
<1>8. Held' <= Held /\ Held \in Int /\ Held' \in Int
  BY <1>1, <1>2, <1>3 DEF Held
<1>9. Held' <= window'
  BY <1>1, <1>8, SizesAssumption DEF KeptInv, TypeOK
<1> QED
  BY <1>1, <1>7, <1>9 DEF KeptInv, BufferFits

LEMMA NextKept == TypeOK /\ KeptInv /\ [Next]_vars => KeptInv'
<1> SUFFICES ASSUME TypeOK, KeptInv, [Next]_vars PROVE KeptInv'
  OBVIOUS
<1>1. CASE UNCHANGED <<window, frames, stream, packetBuf, delivered, overflowed>>
  BY <1>1 DEF KeptInv, StreamKept, Held, BufferFits
<1>2. CASE ReadLen \/ Repost
  BY <1>1, <1>2 DEF ReadLen, Repost
<1>3. CASE UNCHANGED vars
  BY <1>1, <1>3 DEF vars
<1> QED
  BY <1>2, <1>3, SendsKept, RecvKept, OverflowKept, HandleKept DEF Next, Complete, RecvPacket

LEMMA AlwaysKept == Spec => []KeptInv
<1>1. PlaceInv => TypeOK
  BY DEF PlaceInv
<1> QED
  BY <1>1, KeptInit, NextKept, AlwaysPlace, PTL DEF Spec

\* FramingInv: beside keeping its place, the reader loses and doubles no byte:
\* what PacketHandler got, what is buffered and what is on its way are what the
\* peer sent, however the stream is cut (TCPSocket.cpp:222-266).
THEOREM Framing == Spec => []FramingInv
<1>1. StepAgrees /\ WaitsOnlyForMore /\ TypeOK /\ KeptInv => FramingInv
  BY DEF KeptInv, FramingInv
<1> QED
  BY <1>1, KeepsItsPlace, TypeCorrect, AlwaysKept, PTL

\* BufferFits: a peer that keeps at most a buffer's worth of bytes unhandled
\* never makes the memcpy go past _packetBuf (TCPSocket.cpp:226-231).
THEOREM NoOverflow == Spec => []BufferFits
<1>1. KeptInv => BufferFits
  BY DEF KeptInv
<1> QED
  BY <1>1, AlwaysKept, PTL
==============================================================================
