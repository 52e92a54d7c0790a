---------------------------- MODULE DokeviServer ----------------------------
(***************************************************************************)
(* The life of a connection in DokeviServer (DokeviServer.cpp): AcceptEx   *)
(* slots are armed by SetListenPort, the completion port hands completions *)
(* to IO threads, and ConnectHanadler, RecvHandler and DisconnectHandler   *)
(* run on them concurrently.  Every call that touches the kernel, runs a   *)
(* callback of the application or moves _clientSize is a step of its own.  *)
(*                                                                         *)
(* A TCPSocket object is never destroyed or used for a second connection,  *)
(* but its handle is: closesocket frees the handle number and the next     *)
(* socket() may return it, while the old object still holds the number.    *)
(* What is sent and received is in SendQueue and RecvFraming.              *)
(***************************************************************************)
EXTENDS Integers, Sequences, SequencesExt, FiniteSets, FiniteSetsExt

CONSTANTS MaxThreads,     \* bound on the IO threads Run starts
          MaxConn,        \* inMaxConnections of SetListenPort
          MaxSockets,     \* bound on the TCPSocket objects created
          MaxConnects,    \* bound on the connections clients make
          MaxData,        \* bound on the data completions of one connection
          StartSizes,     \* what the uninitialised _clientSize may hold (DokeviServer.h:27)
          MaxSends,       \* bound on the connections the application sends on (once each)
          Resets,         \* TRUE: a peer may reset its connection
          AcceptResets,   \* TRUE: a peer may reset while it is being accepted
          ResetErrors     \* errors a reset operation completes with

ASSUME BoundsAssumption ==
    /\ MaxThreads \in Nat /\ MaxConn \in Nat /\ MaxSockets \in Nat
    /\ MaxConnects \in Nat /\ MaxData \in Nat /\ MaxSends \in Nat
ASSUME SizesAssumption == StartSizes \subseteq Int
ASSUME FlagsAssumption == {Resets, AcceptResets} \subseteq BOOLEAN
ASSUME ErrorsAssumption == ResetErrors \subseteq {"err64", "other"}

IOThreads == 1 .. MaxThreads
Ids == 1 .. MaxSockets          \* TCPSocket objects, in order of creation
Handles == 1 .. MaxSockets      \* SOCKET values; 0 is none

VARIABLES
    toArm,          \* ReadyAcceptEx calls SetListenPort still has to make
    running,        \* IO threads started by Run, 0 before
    created,        \* TCPSocket objects created so far
    handle,         \* handle[x]: _socket of object x, kept after closesocket
    owner,          \* owner[h]: the object the kernel socket behind h belongs to, or 0
    acceptOn,       \* objects with an AcceptEx pending
    conn,           \* state of each object's connection in the kernel
    recvOn,         \* recvOn[x]: object whose connection x's WSARecv is pending on, or 0
    sendOn,         \* the same for x's WSASend
    cq,             \* the completion port: a queue of [op, x, res]
    thread,         \* thread[t]: what IO thread t is doing, [pc, x]
    clientSize,     \* _clientSize
    startSize,      \* history: the value it started from
    connects,       \* clients that connected so far
    resets,         \* history: ResetSocket calls on x
    calls,          \* history: calls[x].connected / .packet / .disconnected
    sent            \* history: objects the application sent on

system == <<toArm, running>>
sockets == <<created, handle, owner, acceptOn, conn>>
ops == <<recvOn, sendOn>>
history == <<connects, resets, calls, sent, startSize>>
vars == <<system, sockets, ops, cq, thread, clientSize, history>>

Idle == [pc |-> "get", x |-> 0]

Init ==
    /\ toArm = MaxConn
    /\ running = 0
    /\ created = 0
    /\ handle = [x \in Ids |-> 0]
    /\ owner = [h \in Handles |-> 0]
    /\ acceptOn = {}
    /\ conn = [x \in Ids |-> "none"]
    /\ recvOn = [x \in Ids |-> 0]
    /\ sendOn = [x \in Ids |-> 0]
    /\ cq = <<>>
    /\ thread = [t \in IOThreads |-> Idle]
    /\ startSize \in StartSizes /\ clientSize = startSize
    /\ connects = 0
    /\ resets = [x \in Ids |-> 0]
    /\ calls = [x \in Ids |-> [connected |-> 0, packet |-> 0, disconnected |-> 0]]
    /\ sent = {}

-----------------------------------------------------------------------------
(* Helpers                                                                 *)

\* The object whose kernel socket a call through x's handle reaches, or 0.
Reached(x) == IF handle[x] = 0 THEN 0 ELSE owner[handle[x]]

Complete(op, x, res) == cq' = Append(cq, [op |-> op, x |-> x, res |-> res])

Goto(t, pc, x) == thread' = [thread EXCEPT ![t] = [pc |-> pc, x |-> x]]

\* ReadyAcceptEx: a new TCPSocket and NetworkClient, and an AcceptEx on it.
\* socket() may return any handle that is not open.
ReadyAcceptEx ==
    /\ created < MaxSockets
    /\ created' = created + 1
    /\ \E h \in Handles :
        /\ owner[h] = 0
        /\ handle' = [handle EXCEPT ![created + 1] = h]
        /\ owner' = [owner EXCEPT ![h] = created + 1]
    /\ acceptOn' = acceptOn \cup {created + 1}
    /\ UNCHANGED conn

\* WSARecv: accepted by a live connection; otherwise it fails at once and the
\* failure is only logged.
PostRecv(x) ==
    recvOn' = IF Reached(x) # 0 /\ conn[Reached(x)] \in {"up", "fin"}
              THEN [recvOn EXCEPT ![x] = Reached(x)]
              ELSE recvOn

-----------------------------------------------------------------------------
(* SetListenPort and Run                                                   *)

Arm ==
    /\ toArm > 0
    /\ ReadyAcceptEx
    /\ toArm' = toArm - 1
    /\ UNCHANGED <<running, ops, cq, thread, clientSize, history>>

\* Run(inIOThreadCount).
Run ==
    /\ toArm = 0 /\ running = 0
    /\ running' \in IOThreads
    /\ UNCHANGED <<toArm, sockets, ops, cq, thread, clientSize, history>>

-----------------------------------------------------------------------------
(* ThreadTask: GetQueuedCompletionStatus and the dispatch on its result    *)

Take(t, pc) ==
    /\ t <= running /\ thread[t] = Idle /\ cq # <<>>
    /\ cq' = Tail(cq)
    /\ thread' = [thread EXCEPT ![t] = [pc |-> pc, x |-> IF pc = "get" THEN 0 ELSE Head(cq).x]]
    /\ UNCHANGED <<system, sockets, ops, clientSize, history>>

GetAccept(t) == Take(t, "associate") /\ Head(cq).op = "ACCEPT" /\ Head(cq).res = "ok"
GetData(t) == Take(t, "packet") /\ Head(cq).op = "RECV" /\ Head(cq).res = "ok"
GetEnd(t) == Take(t, "close") /\ Head(cq).op = "RECV" /\ Head(cq).res = "zero"
GetSent(t) == Take(t, "get") /\ Head(cq).op = "SEND" /\ Head(cq).res = "ok"

\* success == false and Err == 64, whatever the operation was.
GetFailed(t) == Take(t, "close") /\ Head(cq).res = "err64"

\* Any other error: continue.
GetIgnored(t) == Take(t, "get") /\ Head(cq).res = "other"

-----------------------------------------------------------------------------
(* ConnectHanadler                                                         *)

\* The handle joins the completion port (it must be open), RecvPacket(0).
Associate(t) ==
    LET x == thread[t].x IN
    /\ thread[t].pc = "associate"
    /\ IF Reached(x) = 0
       THEN Goto(t, "get", 0) /\ UNCHANGED recvOn
       ELSE Goto(t, "connected", x) /\ PostRecv(x)
    /\ UNCHANGED <<system, sockets, sendOn, cq, clientSize, history>>

CallConnected(t) ==
    LET x == thread[t].x IN
    /\ thread[t].pc = "connected"
    /\ calls' = [calls EXCEPT ![x].connected = @ + 1]
    /\ Goto(t, "count", x)
    /\ UNCHANGED <<system, sockets, ops, cq, clientSize, connects, resets, sent, startSize>>

\* Mutant: the switch of ThreadTask falls from ACCEPT, which transfers no byte,
\* through to RECV.
CountInFallsThrough(t) ==
    /\ thread[t].pc = "count"
    /\ clientSize' = clientSize + 1
    /\ Goto(t, "close", thread[t].x)
    /\ UNCHANGED <<system, sockets, ops, cq, history>>

CountIn(t) ==
    /\ thread[t].pc = "count"
    /\ clientSize' = clientSize + 1
    /\ Goto(t, "get", 0)
    /\ UNCHANGED <<system, sockets, ops, cq, history>>

-----------------------------------------------------------------------------
(* RecvHandler                                                             *)

\* Mutant: the next WSARecv is posted before the data is handled.
CallPacketEarly(t) ==
    LET x == thread[t].x IN
    /\ thread[t].pc = "packet"
    /\ calls' = [calls EXCEPT ![x].packet = @ + 1]
    /\ PostRecv(x)
    /\ Goto(t, "repost", x)
    /\ UNCHANGED <<system, sockets, sendOn, cq, clientSize, connects, resets, sent, startSize>>

CallPacket(t) ==
    LET x == thread[t].x IN
    /\ thread[t].pc = "packet"
    /\ calls' = [calls EXCEPT ![x].packet = @ + 1]
    /\ Goto(t, "repost", x)
    /\ UNCHANGED <<system, sockets, ops, cq, clientSize, connects, resets, sent, startSize>>

\* Mutant: the next WSARecv is forgotten.
RepostForgotten(t) ==
    /\ thread[t].pc = "repost"
    /\ Goto(t, "get", 0)
    /\ UNCHANGED <<system, sockets, ops, cq, clientSize, history>>

Repost(t) ==
    /\ thread[t].pc = "repost"
    /\ PostRecv(thread[t].x)
    /\ Goto(t, "get", 0)
    /\ UNCHANGED <<system, sockets, sendOn, cq, clientSize, history>>

-----------------------------------------------------------------------------
(* DisconnectHandler                                                       *)

\* ResetSocket: closesocket on whatever socket the handle now stands for.
Close(t) ==
    LET x == thread[t].x IN
    /\ thread[t].pc = "close"
    /\ resets' = [resets EXCEPT ![x] = @ + 1]
    /\ conn' = IF Reached(x) = 0 THEN conn ELSE [conn EXCEPT ![Reached(x)] = "closed"]
    /\ owner' = IF Reached(x) = 0 THEN owner ELSE [owner EXCEPT ![handle[x]] = 0]
    /\ Goto(t, "arm", x)
    /\ UNCHANGED <<system, created, handle, acceptOn, ops, cq, clientSize, connects, calls, sent, startSize>>

\* Mutant: the slot is not armed again.
RearmForgotten(t) ==
    /\ thread[t].pc = "arm"
    /\ Goto(t, "disconnected", thread[t].x)
    /\ UNCHANGED <<system, sockets, ops, cq, clientSize, history>>

\* ResetSocket's second half: a new socket takes the slot.
Rearm(t) ==
    /\ thread[t].pc = "arm"
    /\ ReadyAcceptEx
    /\ Goto(t, "disconnected", thread[t].x)
    /\ UNCHANGED <<system, ops, cq, clientSize, history>>

CallDisconnected(t) ==
    LET x == thread[t].x IN
    /\ thread[t].pc = "disconnected"
    /\ calls' = [calls EXCEPT ![x].disconnected = @ + 1]
    /\ Goto(t, "uncount", x)
    /\ UNCHANGED <<system, sockets, ops, cq, clientSize, connects, resets, sent, startSize>>

\* Mutant: a disconnect is not counted.
CountOutForgotten(t) ==
    /\ thread[t].pc = "uncount"
    /\ Goto(t, "get", 0)
    /\ UNCHANGED <<system, sockets, ops, cq, clientSize, history>>

CountOut(t) ==
    /\ thread[t].pc = "uncount"
    /\ clientSize' = clientSize - 1
    /\ Goto(t, "get", 0)
    /\ UNCHANGED <<system, sockets, ops, cq, history>>

-----------------------------------------------------------------------------
(* The application: it sends once on a connection it was told of           *)

AppSend(x) ==
    /\ x \notin sent /\ Cardinality(sent) < MaxSends
    /\ calls[x].connected > 0 /\ calls[x].disconnected = 0
    /\ sent' = sent \cup {x}
    /\ sendOn' = IF Reached(x) # 0 /\ conn[Reached(x)] \in {"up", "fin"}
                 THEN [sendOn EXCEPT ![x] = Reached(x)]
                 ELSE sendOn
    /\ UNCHANGED <<system, sockets, recvOn, cq, thread, clientSize, connects, resets, calls, startSize>>

-----------------------------------------------------------------------------
(* The kernel and the peers                                                *)

Listening == {x \in acceptOn : conn[x] = "none"}

\* A client connects: the oldest pending AcceptEx completes.
ClientConnects ==
    /\ connects < MaxConnects
    /\ Listening # {}
    /\ LET x == Min(Listening) IN
       /\ conn' = [conn EXCEPT ![x] = "up"]
       /\ acceptOn' = acceptOn \ {x}
       /\ Complete("ACCEPT", x, "ok")
    /\ connects' = connects + 1
    /\ UNCHANGED <<system, created, handle, owner, ops, thread, clientSize, resets, calls, sent, startSize>>

\* The client is gone before it was accepted: the AcceptEx fails.
ClientAborts ==
    /\ AcceptResets
    /\ connects < MaxConnects
    /\ \E x \in Listening :
        /\ acceptOn' = acceptOn \ {x}
        /\ Complete("ACCEPT", x, "err64")
    /\ connects' = connects + 1
    /\ UNCHANGED <<system, created, handle, owner, conn, ops, thread, clientSize, resets, calls, sent, startSize>>

\* The socket of a pending AcceptEx was closed.
AcceptCancelled(x) ==
    /\ x \in acceptOn /\ conn[x] = "closed"
    /\ acceptOn' = acceptOn \ {x}
    /\ Complete("ACCEPT", x, "other")
    /\ UNCHANGED <<system, created, handle, owner, conn, ops, thread, clientSize, history>>

PeerCloses(x) ==
    /\ conn[x] = "up"
    /\ conn' = [conn EXCEPT ![x] = "fin"]
    /\ UNCHANGED <<system, created, handle, owner, acceptOn, ops, cq, thread, clientSize, history>>

\* The peer resets the connection, or it breaks.
PeerResets(x) ==
    /\ Resets
    /\ conn[x] \in {"up", "fin"}
    /\ conn' = [conn EXCEPT ![x] = "rst"]
    /\ UNCHANGED <<system, created, handle, owner, acceptOn, ops, cq, thread, clientSize, history>>

RecvCompletes(x, res) ==
    /\ recvOn[x] # 0
    /\ recvOn' = [recvOn EXCEPT ![x] = 0]
    /\ Complete("RECV", x, res)
    /\ UNCHANGED <<system, sockets, sendOn, thread, clientSize, history>>

DataArrives(x) ==
    /\ RecvCompletes(x, "ok")
    /\ conn[recvOn[x]] \in {"up", "fin"}
    /\ calls[x].packet < MaxData

EofArrives(x) == RecvCompletes(x, "zero") /\ conn[recvOn[x]] = "fin"

RecvFails(x) ==
    \E res \in ResetErrors \cup {"other"} :
        /\ RecvCompletes(x, res)
        /\ \/ conn[recvOn[x]] = "rst" /\ res \in ResetErrors
           \/ conn[recvOn[x]] = "closed" /\ res = "other"

SendCompletes(x) ==
    \E res \in ResetErrors \cup {"ok", "other"} :
        /\ sendOn[x] # 0
        /\ \/ conn[sendOn[x]] \in {"up", "fin"} /\ res = "ok"
           \/ conn[sendOn[x]] = "rst" /\ res \in ResetErrors
           \/ conn[sendOn[x]] = "closed" /\ res = "other"
        /\ sendOn' = [sendOn EXCEPT ![x] = 0]
        /\ Complete("SEND", x, res)
        /\ UNCHANGED <<system, sockets, recvOn, thread, clientSize, history>>

-----------------------------------------------------------------------------
GetQueuedCompletionStatus(t) ==
    \/ GetAccept(t) \/ GetData(t) \/ GetEnd(t)
    \/ GetSent(t) \/ GetFailed(t) \/ GetIgnored(t)

ConnectHanadler(t) == Associate(t) \/ CallConnected(t) \/ CountIn(t)

RecvHandler(t) == CallPacket(t) \/ Repost(t)

DisconnectHandler(t) == Close(t) \/ Rearm(t) \/ CallDisconnected(t) \/ CountOut(t)

ThreadTask(t) ==
    GetQueuedCompletionStatus(t) \/ ConnectHanadler(t) \/ RecvHandler(t) \/ DisconnectHandler(t)

\* What the kernel owes the server, and what it may do besides.
Completions(x) ==
    AcceptCancelled(x) \/ EofArrives(x) \/ RecvFails(x) \/ SendCompletes(x)

Next ==
    \/ Arm \/ Run
    \/ \E t \in IOThreads : ThreadTask(t)
    \/ ClientConnects \/ ClientAborts
    \/ \E x \in Ids :
        \/ AppSend(x) \/ PeerCloses(x) \/ PeerResets(x)
        \/ DataArrives(x) \/ Completions(x)

Spec == Init /\ [][Next]_vars

\* The main thread gets through its start, an IO thread that runs goes on, and
\* the kernel completes an operation whose connection ended; no peer has to
\* connect, send or close.
Fairness ==
    /\ WF_vars(Arm \/ Run)
    /\ \A t \in IOThreads : WF_vars(ThreadTask(t))
    /\ \A x \in Ids : WF_vars(Completions(x))

FairSpec == Spec /\ Fairness

-----------------------------------------------------------------------------
(* Properties                                                              *)

Steps == {"get", "associate", "connected", "count", "packet", "repost",
          "close", "arm", "disconnected", "uncount"}

Completion == [op : {"ACCEPT", "RECV", "SEND"}, x : Ids,
               res : {"ok", "zero", "err64", "other"}]

TypeOK ==
    /\ toArm \in 0 .. MaxConn /\ running \in 0 .. MaxThreads
    /\ created \in 0 .. MaxSockets
    /\ handle \in [Ids -> Handles \cup {0}]
    /\ owner \in [Handles -> Ids \cup {0}]
    /\ acceptOn \subseteq Ids
    /\ conn \in [Ids -> {"none", "up", "fin", "rst", "closed"}]
    /\ recvOn \in [Ids -> Ids \cup {0}] /\ sendOn \in [Ids -> Ids \cup {0}]
    /\ cq \in Seq(Completion)
    /\ thread \in [IOThreads -> [pc : Steps, x : Ids \cup {0}]]
    /\ \A t \in IOThreads : (thread[t].pc = "get") <=> (thread[t].x = 0)
    /\ clientSize \in Int /\ startSize \in StartSizes
    /\ connects \in 0 .. MaxConnects
    /\ resets \in [Ids -> Nat]
    /\ calls \in [Ids -> [connected : Nat, packet : Nat, disconnected : Nat]]
    /\ sent \subseteq Ids

\* Threads at one of the steps, for object x.
At(steps, x) == {t \in IOThreads : thread[t].pc \in steps /\ thread[t].x = x}

Waiting(op, x) == {i \in DOMAIN cq : cq[i].op = op /\ cq[i].x = x}

\* RecvPacket takes no lock (TCPSocket.cpp:210-281): what keeps two IO threads
\* out of the buffer of one socket is that the pending WSARecv, its completion
\* and the handler running on it are never two, from the accept on.
RecvSerial ==
    /\ TypeOK
    /\ \A x \in Ids :
        /\ Cardinality(Waiting("ACCEPT", x)) + Cardinality(Waiting("RECV", x))
             + Cardinality(At({"associate", "packet", "repost"}, x))
             + (IF recvOn[x] # 0 THEN 1 ELSE 0) <= 1
        /\ x \in acceptOn => Waiting("ACCEPT", x) = {} /\ recvOn[x] = 0

\* SetListenPort's inMaxConnections: every slot is being armed, waits for a
\* client, or belongs to a connection that was not reset (DokeviServer.cpp:53,
\* TCPSocket.cpp:79-82): no slot is lost and none is doubled.  It takes an
\* application that sends to break this (ClientsBounded).
CapacityConserved ==
    sent = {} =>
        toArm + Cardinality(acceptOn)
          + Cardinality({x \in 1 .. created : x \notin acceptOn /\ resets[x] = 0})
          + Cardinality({t \in IOThreads : thread[t].pc = "arm"}) = MaxConn

\* Until the application sends, a connection is taken down once, through its own
\* handle: the thread in DisconnectHandler and the pending operations reach the
\* object they name, never the socket that took over its handle number.
OwnHandle ==
    sent = {} => \A x \in Ids :
        /\ resets[x] + Cardinality(At({"close"}, x)) <= 1
        /\ At({"close", "associate", "repost"}, x) # {} => Reached(x) = x
        /\ recvOn[x] \in {0, x}

\* GetClientSize counts the connections the application was told of and not
\* told the end of, on top of what _clientSize held before Run, when no IO
\* thread is inside a handler and no end was reported without a beginning.
ClientSizeMatches ==
    /\ \A t \in IOThreads : thread[t] = Idle
    /\ \A x \in Ids : calls[x].disconnected <= calls[x].connected
    => clientSize - startSize =
         Cardinality({x \in Ids : calls[x].connected > calls[x].disconnected})

\* Until the application sends, PacketHandler never runs on a connection after its
\* DisconnectedHandler.  (With a send pending, the end of a reset connection is
\* reported twice, and one thread can report it while another is about to handle
\* a packet: DokeviServer.cpp:102-105.)
NoPacketAfterEnd ==
    [][\A x \in Ids : calls'[x].packet # calls[x].packet /\ sent = {}
            => calls[x].disconnected = 0]_vars

\* With a single IO thread, each connection is a session as the application
\* expects it: ConnectedHandler, packets, DisconnectedHandler, each in its turn.
\* With two the first packet may overtake ConnectedHandler, an application that
\* sends can see a second end, and an accept that failed ends with no beginning.
Session == INSTANCE ClientSession WITH
    Clients <- Ids,
    state <- [x \in Ids |->
        IF calls[x].connected = 0 THEN "new"
        ELSE IF calls[x].disconnected > 0 THEN "over" ELSE "open"],
    packets <- [x \in Ids |-> calls[x].packet]
SerialSessions ==
    /\ Session!Init
    /\ [][running <= 1 /\ sent = {} => [Session!Next]_(Session!vars)]_vars

\* A connection the peer closes is reported to the application
\* (DokeviServer.cpp:118-122), whatever else the IO threads have to do; one that
\* breaks before its end was read may not be, and neither may one whose handle
\* the second end of another connection closed (which takes a send).
GracefulCloseReported ==
    \A x \in Ids :
        conn[x] = "fin" /\ sent = {}
            ~> (calls[x].disconnected > 0 \/ conn[x] = "rst" \/ sent # {})

\* The second argument of SetListenPort is MAX_CLIENT_SIZE: never more clients
\* are connected.
ClientsBounded == Cardinality({x \in Ids : conn[x] = "up"}) <= MaxConn
=============================================================================
