---------------------------- MODULE RecvFraming -----------------------------
(***************************************************************************)
(* The receive path of one socket: TCPSocket::RecvPacket collects what     *)
(* WSARecv delivers in _packetBuf and hands complete packets to the        *)
(* application.  A TCP stream has no boundaries: a completion may carry    *)
(* part of a header, several packets, or the end of one and the start of   *)
(* the next.  RecvPacket takes no lock; that one thread at a time is in it *)
(* is RecvSerial of DokeviServer.                                          *)
(*                                                                         *)
(* The header holds the length of the packet, itself included, as          *)
(* IndependentNetworkClient::SendPacket writes and RecvPacket reads it.    *)
(* Sizes are counted in bytes of a small scale.                            *)
(***************************************************************************)
EXTENDS Integers, Sequences, SequencesExt, FiniteSetsExt

CONSTANTS HDR,          \* sizeof(unsigned int)
          BUF,          \* MAX_PACKET_BUF_SIZE: _recvBuf and _packetBuf
          Lens,         \* lengths of the packets the peer sends
          MaxFrames,    \* bound on the packets of the peer
          Windows       \* how many bytes a peer sends ahead of their being handled

ASSUME SizesAssumption ==
    /\ HDR \in Nat \ {0} /\ BUF \in Nat /\ MaxFrames \in Nat
    /\ Windows \subseteq Nat /\ Lens \subseteq Nat
ASSUME LensAssumption == \A len \in Lens : HDR <= len /\ len <= BUF

VARIABLES window,       \* the peer's choice among Windows
          frames,       \* the packets the peer sent, each a sequence of bytes
          stream,       \* bytes on their way
          pc,           \* "recv": a WSARecv is pending; "loop": in RecvPacket
          packetBuf,    \* the first _recvSize bytes of _packetBuf
          packetSize,   \* _packetSize
          recvStep,     \* _recvStep
          delivered,    \* arguments of PacketHandler, so far
          overflowed    \* the memcpy went past _packetBuf

vars == <<window, frames, stream, pc, packetBuf, packetSize, recvStep, delivered,
          overflowed>>

Init ==
    /\ window \in Windows
    /\ frames = <<>>
    /\ stream = <<>>
    /\ pc = "recv"
    /\ packetBuf = <<>>
    /\ packetSize = 0
    /\ recvStep = "RECV_LEN"
    /\ delivered = <<>>
    /\ overflowed = FALSE

\* Byte i of the peer's packet number k, whose header says len (SendPacket).
Frame(k, len) == [i \in 1 .. len |-> [frame |-> k, at |-> i, len |-> len]]

\* NetworkUtils::GetSizeInByteArray; not a header, it may be any number.
GetSizeInByteArray(bytes) ==
    IF \A i \in 1 .. HDR : bytes[i].frame = bytes[1].frame /\ bytes[i].at = i
    THEN {bytes[1].len}
    ELSE 0 .. BUF

-----------------------------------------------------------------------------
(* The peer and the kernel                                                 *)

\* Bytes of packets the application has not been handed: the peer learns of
\* nothing else, by an answer to each packet.
Unhandled == Len(FlattenSeq(frames)) - Len(FlattenSeq(delivered))

PeerSends(len) ==
    /\ Len(frames) < MaxFrames
    /\ Unhandled + len <= window
    /\ LET frame == Frame(Len(frames) + 1, len) IN
       /\ frames' = Append(frames, frame)
       /\ stream' = stream \o frame
    /\ UNCHANGED <<window, pc, packetBuf, packetSize, recvStep, delivered, overflowed>>

\* What a completion may carry: some of the stream, up to _recvBuf.len.
Transfers == 1 .. Min({BUF, Len(stream)})

-----------------------------------------------------------------------------
(* TCPSocket::RecvPacket(inSize), inSize > 0                               *)

\* Mutant: the received bytes are put at the start of _packetBuf.
RecvAtStart(inSize) ==
    /\ pc = "recv" /\ ~overflowed
    /\ Len(packetBuf) + inSize <= BUF
    /\ packetBuf' = SubSeq(stream, 1, inSize)
    /\ stream' = SubSeq(stream, inSize + 1, Len(stream))
    /\ pc' = "loop"
    /\ UNCHANGED <<window, frames, packetSize, recvStep, delivered, overflowed>>

\* A completion: the bytes are copied behind what _packetBuf holds.
Recv(inSize) ==
    /\ pc = "recv" /\ ~overflowed
    /\ Len(packetBuf) + inSize <= BUF
    /\ packetBuf' = packetBuf \o SubSeq(stream, 1, inSize)
    /\ stream' = SubSeq(stream, inSize + 1, Len(stream))
    /\ pc' = "loop"
    /\ UNCHANGED <<window, frames, packetSize, recvStep, delivered, overflowed>>

\* The same when they do not fit: memory is overwritten, all bets are off.
RecvOverflow(inSize) ==
    /\ pc = "recv" /\ ~overflowed
    /\ Len(packetBuf) + inSize > BUF
    /\ overflowed' = TRUE
    /\ UNCHANGED <<window, frames, stream, pc, packetBuf, packetSize, recvStep, delivered>>

\* Mutant: the length is taken to leave out the header.
ReadLenExclusive ==
    /\ pc = "loop" /\ recvStep = "RECV_LEN"
    /\ Len(packetBuf) >= HDR
    /\ packetSize' \in {size + HDR : size \in GetSizeInByteArray(packetBuf)}
    /\ recvStep' = "RECV_BODY"
    /\ UNCHANGED <<window, frames, stream, pc, packetBuf, delivered, overflowed>>

ReadLen ==
    /\ pc = "loop" /\ recvStep = "RECV_LEN"
    /\ Len(packetBuf) >= HDR
    /\ packetSize' \in GetSizeInByteArray(packetBuf)
    /\ recvStep' = "RECV_BODY"
    /\ UNCHANGED <<window, frames, stream, pc, packetBuf, delivered, overflowed>>

\* Mutant: the buffer is not moved.
HandleUnmoved ==
    /\ pc = "loop" /\ recvStep = "RECV_BODY"
    /\ Len(packetBuf) >= packetSize
    /\ delivered' = Append(delivered, SubSeq(packetBuf, 1, packetSize))
    /\ packetBuf' = SubSeq(packetBuf, 1, Len(packetBuf) - packetSize)
    /\ recvStep' = "RECV_LEN"
    /\ pc' = IF packetBuf' # <<>> THEN "loop" ELSE "recv"
    /\ UNCHANGED <<window, frames, stream, packetSize, overflowed>>

\* Mutant: the handled bytes are counted again.
HandleKeepsBytes ==
    /\ pc = "loop" /\ recvStep = "RECV_BODY"
    /\ Len(packetBuf) >= packetSize
    /\ delivered' = Append(delivered, SubSeq(packetBuf, 1, packetSize))
    /\ packetBuf' = IF Len(packetBuf) = packetSize THEN packetBuf
                    ELSE SubSeq(packetBuf, packetSize + 1, Len(packetBuf))
    /\ recvStep' = "RECV_LEN"
    /\ pc' = IF packetBuf' # packetBuf THEN "loop" ELSE "recv"
    /\ UNCHANGED <<window, frames, stream, packetSize, overflowed>>

\* A complete packet: PacketHandler, and the rest moves to the front.
Handle ==
    /\ pc = "loop" /\ recvStep = "RECV_BODY"
    /\ Len(packetBuf) >= packetSize
    /\ delivered' = Append(delivered, SubSeq(packetBuf, 1, packetSize))
    /\ packetBuf' = SubSeq(packetBuf, packetSize + 1, Len(packetBuf))
    /\ recvStep' = "RECV_LEN"
    /\ pc' = IF packetBuf' # <<>> THEN "loop" ELSE "recv"
    /\ UNCHANGED <<window, frames, stream, packetSize, overflowed>>

\* More bytes are needed: WSARecv is posted again.
Repost ==
    /\ pc = "loop"
    /\ \/ recvStep = "RECV_LEN" /\ Len(packetBuf) < HDR
       \/ recvStep = "RECV_BODY" /\ Len(packetBuf) < packetSize
    /\ pc' = "recv"
    /\ UNCHANGED <<window, frames, stream, packetBuf, packetSize, recvStep, delivered, overflowed>>

-----------------------------------------------------------------------------
RecvPacket == ReadLen \/ Handle \/ Repost

Complete == \E inSize \in Transfers : Recv(inSize) \/ RecvOverflow(inSize)

Next == (\E len \in Lens : PeerSends(len)) \/ Complete \/ RecvPacket

Spec == Init /\ [][Next]_vars

\* The thread in RecvPacket goes on and the kernel completes a receive for
\* which it has bytes; the peer owes nothing.
Fairness == WF_vars(RecvPacket) /\ WF_vars(Complete)

FairSpec == Spec /\ Fairness

-----------------------------------------------------------------------------
(* Properties                                                              *)

Bytes == [frame : 1 .. MaxFrames, at : 1 .. BUF, len : Lens]

TypeOK ==
    /\ window \in Windows
    /\ frames \in Seq(Seq(Bytes)) /\ Len(frames) <= MaxFrames
    /\ stream \in Seq(Bytes)
    /\ pc \in {"recv", "loop"}
    /\ packetBuf \in Seq(Bytes) /\ Len(packetBuf) <= BUF
    /\ packetSize \in 0 .. BUF
    /\ recvStep \in {"RECV_LEN", "RECV_BODY"}
    /\ delivered \in Seq(Seq(Bytes))
    /\ overflowed \in BOOLEAN

\* What PacketHandler got, what is buffered and what is on its way make up what
\* the peer sent, byte for byte (TCPSocket.cpp:229-264).
StreamKept == FlattenSeq(delivered) \o packetBuf \o stream = FlattenSeq(frames)

\* While the socket waits for the network no complete packet sits in its buffer:
\* a completion hands over everything it completes.
WaitsOnlyForMore ==
    pc = "recv" /\ packetBuf # <<>> =>
        \/ Len(packetBuf) < HDR
        \/ Len(packetBuf) < packetBuf[1].len

\* The length read for a packet is remembered across completions: in RECV_BODY
\* it is the length of the packet at the front of the buffer, and the loop always
\* starts a packet at its first byte.
StepAgrees ==
    /\ packetBuf # <<>> => packetBuf[1].at = 1
    /\ recvStep = "RECV_BODY" => packetBuf # <<>> /\ packetSize = packetBuf[1].len
    /\ recvStep = "RECV_LEN" /\ pc = "recv" => Len(packetBuf) < HDR

\* The three together: the reader never loses its place in the stream, and never
\* sits on a complete packet.
FramingInv == TypeOK /\ StreamKept /\ WaitsOnlyForMore /\ StepAgrees

\* A peer that keeps at most a buffer's worth unhandled never overflows it.
BufferFits == window <= BUF => ~overflowed

\* Packets come out whole, once and in order.
Channel == INSTANCE FrameChannel WITH
    Frames <- {Frame(k, len) : k \in 1 .. MaxFrames, len \in Lens},
    sent <- frames, got <- delivered
ImplementsFrameChannel == Channel!Spec

\* Every packet the peer sends is handed to the application, unless the buffer
\* overflows.
PacketsHandled ==
    \A k \in 1 .. MaxFrames :
        Len(frames) >= k ~> (Len(delivered) >= k \/ overflowed)
=============================================================================
