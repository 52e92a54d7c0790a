---------------------------- MODULE NetworkClient ----------------------------
(***************************************************************************)
(* IndependentNetworkClient (NetworkClient.h, NetworkClient.cpp): a client *)
(* with a thread of its own that waits in recv and cuts what it gets into  *)
(* packets, while a user thread sends, disconnects, connects again and     *)
(* destroys it, in any order, except that it does not connect while there  *)
(* is a receive thread.                                                    *)
(*                                                                         *)
(* The client reads headers that count themselves, as SendPacket writes    *)
(* them; those of TCPSocket::Send, which a DokeviServer sends with, leave  *)
(* themselves out.  Sizes are counted in bytes of a small scale.           *)
(***************************************************************************)
EXTENDS Integers, Sequences, SequencesExt, FiniteSetsExt

CONSTANTS HDR,          \* sizeof(unsigned int)
          BUF,          \* MAX_PACKET_BUF_SIZE
          Lens,         \* lengths of the packets the server sends, all included
          InLengths,    \* inLength of SendPacket
          W,            \* an unsigned int counts modulo W
          MaxFrames,    \* bound on the packets of the server per connection
          MaxConnects,  \* bound on the calls of Connect
          MaxSends      \* bound on the calls of SendPacket

ASSUME SizesAssumption ==
    /\ HDR \in Nat \ {0} /\ BUF \in Nat /\ W \in Nat \ {0} /\ Lens \subseteq Nat
    /\ MaxFrames \in Nat /\ MaxConnects \in Nat /\ MaxSends \in Nat
ASSUME LensAssumption == \A len \in Lens : 2 * HDR <= len /\ len <= BUF
ASSUME InLengthsAssumption ==
    \A len \in InLengths : len \in Nat /\ len + 2 * HDR <= BUF /\ len + 2 * HDR < W

VARIABLES counted,      \* the headers of the server count themselves
          conn,         \* the socket: "none", "open", "eof" or "broken"
          frames,       \* the packets the server sent on this connection
          stream,       \* bytes on their way to the client
          disconnect,   \* _disconnect
          thread,       \* where _recvThread is
          packetBuffer, \* the first _curOffset bytes of _packetBuffer
          bufferSize,   \* _bufferSize
          clean,        \* history: nothing was buffered when Connect was called
          handed,       \* history: arguments of RecvHandler since, if clean
          user,         \* what the user thread is doing
          last,         \* history: the call that came back last, of those but SendPacket
          packetLength, \* packetLength of SendPacket
          sendCount,    \* SendCount of SendPacket
          connects, sends

buffer == <<packetBuffer, bufferSize, handed>>
sending == <<packetLength, sendCount, sends>>
server == <<counted, conn, frames, stream>>
vars == <<server, disconnect, thread, buffer, clean, user, last, sending, connects>>

\* The constructor sets _curOffset; _bufferSize and _disconnect hold what the
\* memory held.
Init ==
    /\ counted \in BOOLEAN
    /\ conn = "none"
    /\ frames = <<>> /\ stream = <<>>
    /\ disconnect \in BOOLEAN /\ thread = "none"
    /\ packetBuffer = <<>> /\ bufferSize \in {0, BUF} /\ handed = <<>>
    /\ clean = FALSE
    /\ user = "idle" /\ last = "none" /\ packetLength = 0 /\ sendCount = 0
    /\ connects = 0 /\ sends = 0

\* Byte i of the server's packet k: its first HDR bytes are the length, that of
\* SendPacket or that of TCPSocket::Send.
Frame(k, len) ==
    [i \in 1 .. len |->
        [frame |-> k, at |-> i, size |-> IF counted THEN len ELSE len - HDR]]

\* *((unsigned int*)_packetBuffer); where no packet starts it may be any number,
\* and BUF + 1 stands for all that are larger than the buffer.
HeaderOf(bytes) ==
    IF \A i \in 1 .. HDR : bytes[i].frame = bytes[1].frame /\ bytes[i].at = i
    THEN {bytes[1].size}
    ELSE 0 .. BUF + 1

-----------------------------------------------------------------------------
(* The user thread                                                         *)

Idle == user = "idle"

\* There is a receive thread that was not joined.
Joinable == thread \notin {"none", "joined"}

CanConnect == Idle /\ ~Joinable /\ connects < MaxConnects

\* Mutant: _disconnect keeps what an earlier Disconnect set.
ConnectUnreset ==
    /\ CanConnect
    /\ connects' = connects + 1 /\ last' = "connected"
    /\ conn' = "open" /\ frames' = <<>> /\ stream' = <<>> /\ handed' = <<>>
    /\ clean' = (packetBuffer = <<>> /\ bufferSize = 0)
    /\ thread' = "loop"
    /\ UNCHANGED <<counted, disconnect, packetBuffer, bufferSize, user, sending>>

\* Connect returns true; _curOffset and _bufferSize keep what they were, and a
\* socket of an earlier connection is left open.
Connect ==
    /\ CanConnect
    /\ connects' = connects + 1 /\ last' = "connected"
    /\ disconnect' = FALSE
    /\ conn' = "open" /\ frames' = <<>> /\ stream' = <<>> /\ handed' = <<>>
    /\ clean' = (packetBuffer = <<>> /\ bufferSize = 0)
    /\ thread' = "loop"
    /\ UNCHANGED <<counted, packetBuffer, bufferSize, user, sending>>

\* Connect returns false: there is no socket, and the thread of an earlier
\* connection, or none, stays in _recvThread.
ConnectFails ==
    /\ CanConnect
    /\ connects' = connects + 1 /\ last' = "failed"
    /\ disconnect' = FALSE
    /\ conn' = "broken" /\ frames' = <<>> /\ stream' = <<>> /\ handed' = <<>>
    /\ UNCHANGED <<counted, thread, packetBuffer, bufferSize, clean, user, sending>>

\* _recvThread->join() is called, and ends the process if there is no thread to join:
\* the pointer was never set, or join() throws.
JoinOr(pc, end) ==
    /\ user' = IF Joinable THEN pc ELSE end
    /\ UNCHANGED <<server, thread, buffer, clean, last, sending, connects>>

\* Disconnect, up to the join: closesocket is given the number 1, no socket.
Disconnect == Idle /\ disconnect' = TRUE /\ JoinOr("disconnecting", "crashed")

Wait == Idle /\ JoinOr("waiting", "crashed") /\ UNCHANGED disconnect

\* The destructor returns at once if _disconnect is set, and calls Disconnect if not.
Destroy ==
    /\ Idle
    /\ IF disconnect
       THEN /\ user' = "gone"
            /\ UNCHANGED <<server, disconnect, thread, buffer, clean, last, sending, connects>>
       ELSE disconnect' = TRUE /\ JoinOr("destroying", "aborted")

Joining == user \in {"disconnecting", "waiting", "destroying"}

\* _recvThread->join() returns.
Join ==
    /\ Joining /\ thread = "ended"
    /\ thread' = "joined"
    /\ user' = IF user = "destroying" THEN "gone" ELSE "idle"
    /\ last' = IF user = "waiting" THEN "waited" ELSE "disconnected"
    /\ UNCHANGED <<server, disconnect, buffer, clean, sending, connects>>

SendPacket(inLength) ==
    /\ Idle
    /\ sends < MaxSends
    /\ sends' = sends + 1
    /\ packetLength' = inLength + 2 * HDR
    /\ sendCount' = 0
    /\ user' = "sending"
    /\ UNCHANGED <<server, disconnect, thread, buffer, clean, last, connects>>

\* The end of the do loop: SendCount has changed by n.
Counted(n) ==
    /\ LET count == (sendCount + n) % W IN
       IF count = packetLength
       THEN user' = "idle" /\ packetLength' = 0 /\ sendCount' = 0
       ELSE sendCount' = count /\ UNCHANGED <<user, packetLength>>
    /\ UNCHANGED <<server, disconnect, thread, buffer, clean, last, sends, connects>>

\* send on a blocking socket takes all of the packet.  Before the first Connect
\* _listenSocket is any number: the number of an open socket, which takes all at
\* once, or of none, which never takes anything.
SendTakesAll ==
    /\ user = "sending"
    /\ conn \in {"open", "eof"} \/ (conn = "none" /\ sendCount = 0)
    /\ Counted(packetLength)

\* send answers -1, which is added to SendCount.
SendFails == user = "sending" /\ conn \in {"none", "broken"} /\ Counted(-1)

-----------------------------------------------------------------------------
(* IndependentNetworkClient::RecvPacket in _recvThread                     *)

\* Mutant: the loop does not look at _disconnect.
TestNothing ==
    /\ thread = "loop"
    /\ thread' = "recv"
    /\ UNCHANGED <<server, disconnect, buffer, clean, user, last, sending, connects>>

\* while (!_disconnect)
TestDisconnect ==
    /\ thread = "loop"
    /\ thread' = IF disconnect THEN "ended" ELSE "recv"
    /\ UNCHANGED <<server, disconnect, buffer, clean, user, last, sending, connects>>

\* recv answers -1: break.
RecvFails ==
    /\ thread = "recv" /\ conn = "broken"
    /\ thread' = "ended"
    /\ UNCHANGED <<server, disconnect, buffer, clean, user, last, sending, connects>>

\* What recv may answer: some of the stream, and 0 when the server has closed.
ReceiveBytes ==
    IF stream # <<>> THEN 1 .. Min({BUF, Len(stream)})
    ELSE IF conn = "eof" THEN {0} ELSE {}

\* The new length, if none is known and a header is there; a header alone waits.
SizeFrom(known, bytes) ==
    /\ bufferSize' \in IF known = 0 /\ Len(bytes) >= HDR THEN HeaderOf(bytes) ELSE {known}
    /\ thread' = IF Len(bytes) <= HDR THEN "loop" ELSE "handle"

\* recv, and the first lines of DeserializePacket.
Recv(sizeRead) ==
    /\ thread = "recv" /\ conn # "broken"
    /\ Len(packetBuffer) + sizeRead <= BUF
    /\ packetBuffer' = packetBuffer \o SubSeq(stream, 1, sizeRead)
    /\ stream' = SubSeq(stream, sizeRead + 1, Len(stream))
    /\ SizeFrom(bufferSize, packetBuffer')
    /\ UNCHANGED <<counted, conn, frames, disconnect, handed, clean, user, last, sending, connects>>

\* The memcpy does not fit: memory is overwritten, nothing is claimed any more.
RecvOverflow(sizeRead) ==
    /\ thread = "recv" /\ conn # "broken"
    /\ Len(packetBuffer) + sizeRead > BUF
    /\ thread' = "overflowed"
    /\ UNCHANGED <<server, disconnect, buffer, clean, user, last, sending, connects>>

Complete == bufferSize # 0 /\ bufferSize <= Len(packetBuffer)

\* Mutant: the length of the handled packet is kept for the next one.
HandleKeepsSize ==
    /\ thread = "handle" /\ Complete
    /\ handed' = IF clean THEN Append(handed, SubSeq(packetBuffer, 1, bufferSize)) ELSE handed
    /\ packetBuffer' = SubSeq(packetBuffer, bufferSize + 1, Len(packetBuffer))
    /\ SizeFrom(bufferSize, packetBuffer')
    /\ UNCHANGED <<server, disconnect, clean, user, last, sending, connects>>

\* The loop of DeserializePacket: RecvHandler, and the rest moves to the front.
Handle ==
    /\ thread = "handle" /\ Complete
    /\ handed' = IF clean THEN Append(handed, SubSeq(packetBuffer, 1, bufferSize)) ELSE handed
    /\ packetBuffer' = SubSeq(packetBuffer, bufferSize + 1, Len(packetBuffer))
    /\ SizeFrom(0, packetBuffer')
    /\ UNCHANGED <<server, disconnect, clean, user, last, sending, connects>>

Return ==
    /\ thread = "handle" /\ ~Complete
    /\ thread' = "loop"
    /\ UNCHANGED <<server, disconnect, buffer, clean, user, last, sending, connects>>

-----------------------------------------------------------------------------
(* The server and the network                                              *)

ServerSends(len) ==
    /\ conn = "open"
    /\ Len(frames) < MaxFrames
    /\ LET frame == Frame(Len(frames) + 1, len) IN
       /\ frames' = Append(frames, frame)
       /\ stream' = stream \o frame
    /\ UNCHANGED <<counted, conn, disconnect, thread, buffer, clean, user, last, sending, connects>>

ServerCloses ==
    /\ conn = "open" /\ conn' = "eof"
    /\ UNCHANGED <<counted, frames, stream, disconnect, thread, buffer, clean, user, last, sending, connects>>

\* What is on its way is lost.
ConnectionBreaks ==
    /\ conn \in {"open", "eof"} /\ conn' = "broken"
    /\ stream' = <<>>
    /\ UNCHANGED <<counted, frames, disconnect, thread, buffer, clean, user, last, sending, connects>>

-----------------------------------------------------------------------------
\* The process lives.
Alive == user \notin {"crashed", "aborted"}

RecvPacket ==
    /\ Alive
    /\ \/ TestDisconnect \/ RecvFails \/ Handle \/ Return
       \/ \E sizeRead \in ReceiveBytes : Recv(sizeRead) \/ RecvOverflow(sizeRead)

Sending == SendTakesAll \/ SendFails

Calls ==
    \/ Connect \/ ConnectFails \/ Disconnect \/ Wait \/ Destroy
    \/ \E inLength \in InLengths : SendPacket(inLength)

Network == Alive /\ (ServerCloses \/ ConnectionBreaks \/ \E len \in Lens : ServerSends(len))

Next == Calls \/ Join \/ Sending \/ RecvPacket \/ Network

Spec == Init /\ [][Next]_vars

\* The two threads run, recv returns when it has something to answer, and the
\* kernel takes what it is given to send; nobody has to call, and the server owes
\* nothing.
Fairness == WF_vars(RecvPacket) /\ WF_vars(Join) /\ WF_vars(Sending)

FairSpec == Spec /\ Fairness

-----------------------------------------------------------------------------
(* Properties                                                              *)

Bytes == [frame : 1 .. MaxFrames, at : 1 .. BUF, size : 0 .. BUF]

TypeOK ==
    /\ conn \in {"none", "open", "eof", "broken"}
    /\ frames \in Seq(Seq(Bytes)) /\ stream \in Seq(Bytes)
    /\ counted \in BOOLEAN /\ disconnect \in BOOLEAN /\ clean \in BOOLEAN
    /\ thread \in {"none", "loop", "recv", "handle", "ended", "joined", "overflowed"}
    /\ packetBuffer \in Seq(Bytes) /\ Len(packetBuffer) <= BUF
    /\ bufferSize \in 0 .. BUF + 1
    /\ handed \in Seq(Seq(Bytes))
    /\ user \in {"idle", "sending", "disconnecting", "waiting", "destroying", "gone",
                "crashed", "aborted"}
    /\ last \in {"none", "connected", "failed", "waited", "disconnected"}
    /\ packetLength \in 0 .. BUF /\ sendCount \in 0 .. W - 1
    /\ connects \in 0 .. MaxConnects /\ sends \in 0 .. MaxSends

\* On a connection that began with an empty buffer and no length, no byte is lost,
\* doubled or moved however recv cuts the stream (NetworkClient.cpp:96-123), whether
\* or not the packets are cut where they begin.  If besides the server's headers
\* count themselves (those of TCPSocket::Send do not), RecvHandler gets whole packets
\* in the order they were sent, and the thread never waits in recv while a packet is
\* complete.
FramingKept ==
    /\ TypeOK
    /\ clean /\ conn # "broken" =>
            FlattenSeq(handed) \o packetBuffer \o stream = FlattenSeq(frames)
    /\ clean /\ counted =>
        /\ IsPrefix(handed, frames)
        /\ thread = "recv" /\ Len(packetBuffer) >= HDR =>
               Len(packetBuffer) < packetBuffer[1].size

\* _recvThread is in recv and nothing comes.
WaitsForServer == thread = "recv" /\ conn = "open" /\ stream = <<>>

\* A Disconnect that never returns (NetworkClient.cpp:54-63) hangs in the join of
\* a thread that waits for a server which neither sends nor closes; in all other
\* cases, an endless stream of empty recvs included, it returns.
DisconnectReturns ==
    <>[](Joining /\ disconnect) => <>[](WaitsForServer \/ thread = "overflowed")

\* SendPacket (NetworkClient.cpp:139-144) returns even when every send fails:
\* SendCount goes down from zero and wraps until it meets packetLength.
SendReturns == user = "sending" ~> user # "sending"

\* The calls of the user thread come back, on any stream.
CallsReturn == DisconnectReturns /\ SendReturns

\* No receive thread outlives its client; calls end the process only on a client
\* that is not connected, and the destructor only on one whose last connection
\* failed, was waited for, or was never made (NetworkClient.cpp:10-18, 49-63).
EndsItsThread ==
    /\ user = "gone" => ~Joinable
    /\ user = "crashed" => last # "connected"
    /\ user = "aborted" => last \in {"none", "failed", "waited"}
=============================================================================
