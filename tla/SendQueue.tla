----------------------------- MODULE SendQueue -----------------------------
(***************************************************************************)
(* The send path of the server: TCPSocket::Send and OnWriteCallback, the   *)
(* packet queue each socket keeps through PacketInterface::_next, the      *)
(* PacketSelector pools the packets come from, and DokeviServer::Send.     *)
(*                                                                         *)
(* Send and OnWriteCallback run under the socket's WRITE_GUARD.  The pools *)
(* are shared by every socket, so the pool operations of one socket fall   *)
(* between the steps of another: each handler is split where it calls the  *)
(* pool.  The kernel reads a posted buffer when it transmits it, not when  *)
(* WSASend is called (SO_SNDBUF is 0, DokeviServer.cpp:175).               *)
(* Sizes are counted in units of the length header.                        *)
(***************************************************************************)
EXTENDS Integers, Sequences, SequencesExt, FiniteSets

CONSTANTS Sockets,    \* the TCPSockets
          Classes,    \* capacities of the packet classes (64 ... 4096 in the code)
          PoolSize,   \* packets per class (1000 in the code)
          Messages,   \* what the application sends: <<length, imm>> pairs
          MaxSends,   \* bound on the messages of all sockets together
          Wrap,       \* range of _remainSize, an unsigned int
          MaxBreaks,  \* bound on the connections that break
          Nil         \* nullptr

HDR == 1              \* sizeof(unsigned int)

Index == 0 .. PoolSize - 1
Packets == Classes \X Index

ASSUME ClassesAssumption == Classes \subseteq Nat \ {0} /\ IsFiniteSet(Classes) /\ Classes # {}
ASSUME BoundsAssumption == PoolSize \in Nat /\ MaxSends \in Nat /\ MaxBreaks \in Nat
ASSUME WrapAssumption == Wrap \in Nat \ {0} /\ \A c \in Classes : c < Wrap
ASSUME MessagesAssumption == Messages \subseteq Nat \X BOOLEAN
ASSUME NilAssumption ==
    Nil \notin Classes \X Int /\ Nil \notin [packet : Packets, len : Nat, imm : BOOLEAN]

VARIABLES mem,            \* the packets: [msgs, imm, sending, size, remain, next]
          used,           \* used[c]: _used of the pool of class c
          sendingPacket,  \* _sendingPacket of each socket
          lastPacket,     \* _lastPacket of each socket
          filling,        \* the Send that has its packet and has not linked it yet
          freeing,        \* the packet an OnWriteCallback is about to free
          posted,         \* WSASends the kernel has and did not transmit
          completions,    \* successful send completions nobody handled yet
          broken,         \* sockets whose connection is gone
          crashed,        \* the process dereferenced a null packet
          wire,           \* wire[s]: messages the kernel transmitted
          accepted,       \* wire[s] should become this: messages Send took
          live,           \* history: packets handed out by a pool and not freed
          answer          \* history: what the pool of a class answered last

queues == <<sendingPacket, lastPacket>>
kernel == <<posted, completions, broken, wire>>
pools == <<used, live, answer>>
vars == <<mem, queues, filling, freeing, kernel, crashed, accepted, pools>>

\* PacketInterface::Release(), as StaticSizePacket<c> implements it; _size is
\* not reset and is written before it is read.
Released(c) == [msgs |-> <<>>, imm |-> FALSE, sending |-> FALSE,
                size |-> 0, remain |-> c, next |-> Nil]

Init ==
    /\ mem = [p \in Packets |-> Released(p[1])]
    /\ used = [c \in Classes |-> 0]
    /\ sendingPacket = [s \in Sockets |-> Nil]
    /\ lastPacket = [s \in Sockets |-> Nil]
    /\ filling = [s \in Sockets |-> Nil]
    /\ freeing = [s \in Sockets |-> Nil]
    /\ posted = [s \in Sockets |-> <<>>]
    /\ completions = [s \in Sockets |-> 0]
    /\ broken = {}
    /\ crashed = FALSE
    /\ wire = [s \in Sockets |-> <<>>]
    /\ accepted = [s \in Sockets |-> <<>>]
    /\ live = [c \in Classes |-> [i \in Index |-> 0]]
    /\ answer = [c \in Classes |-> Nil]

-----------------------------------------------------------------------------
(* Helpers                                                                 *)

\* No packet is lent twice, and none holds more than its buffer.
Sound ==
    /\ \A c \in Classes, i \in Index : live[c][i] <= 1
    /\ \A p \in Packets : mem[p].size <= p[1]

\* The process goes on.  What it does once a packet is lent twice or overflows (the
\* runs SendQueue_shared and SendQueue_overflow) is not followed: the links of the
\* queues and the memory beside the packet are no longer what the code takes them for.
Running == ~crashed /\ Sound

\* The socket's WRITE_GUARD is free.
GuardFree(s) == Running /\ filling[s] = Nil /\ freeing[s] = Nil

\* The class AllocPacket(inSize) picks: the smallest that holds inSize.
Fitting(len) == {c \in Classes : len <= c}
ClassOf(len) == CHOOSE c \in Fitting(len) : \A d \in Fitting(len) : c <= d

Message(s, len) == [from |-> s, n |-> Len(accepted[s]) + 1, len |-> len]

Accept(s, msg) == accepted' = [accepted EXCEPT ![s] = Append(@, msg)]

\* DokeviServer::Send: a WSASend that fails is logged and forgotten.
Post(s, p, m) ==
    posted' = IF s \in broken THEN posted
              ELSE [posted EXCEPT ![s] = Append(@, [packet |-> p, len |-> Len(m[p].msgs)])]

-----------------------------------------------------------------------------
(* TCPSocket::Send                                                         *)

\* Mutant: the packet that the kernel already has is appended to.
CanAppendSending(s, len) ==
    /\ lastPacket[s] # Nil
    /\ ~mem[lastPacket[s]].imm
    /\ mem[lastPacket[s]].remain >= len + HDR

\* Mutant: the room for the header is not asked for.
CanAppendBare(s, len) ==
    /\ lastPacket[s] # Nil
    /\ ~mem[lastPacket[s]].sending
    /\ ~mem[lastPacket[s]].imm
    /\ mem[lastPacket[s]].remain >= len

\* The last queued packet can take one more message (imm is tested by Send).
CanAppend(s, len) ==
    /\ lastPacket[s] # Nil
    /\ ~mem[lastPacket[s]].sending
    /\ ~mem[lastPacket[s]].imm
    /\ mem[lastPacket[s]].remain >= len + HDR

SendCalled(s, len, imm) ==
    /\ GuardFree(s)
    /\ FoldFunction(+, 0, [t \in Sockets |-> Len(accepted[t])]) < MaxSends

\* The message goes into the last packet of the queue.
SendAppend(s, len, imm) ==
    /\ SendCalled(s, len, imm)
    /\ CanAppend(s, len) /\ ~imm
    /\ LET p == lastPacket[s] IN
       mem' = [mem EXCEPT ![p].msgs = Append(@, Message(s, len)),
                          ![p].size = @ + len + HDR,
                          ![p].remain = (@ - (len + HDR)) % Wrap]
    /\ Accept(s, Message(s, len))
    /\ UNCHANGED <<queues, filling, freeing, kernel, crashed, pools>>

\* Mutant: the pool does not count the packet it lends.
SendAllocUncounted(s, len, imm) ==
    /\ SendCalled(s, len, imm)
    /\ ~CanAppend(s, len) \/ imm
    /\ Fitting(len) # {}
    /\ LET c == ClassOf(len)
           p == <<c, used[c]>> IN
       /\ used[c] # PoolSize
       /\ mem' = [mem EXCEPT ![p] = Released(c)]
       /\ live' = [live EXCEPT ![c][used[c]] = @ + 1]
       /\ answer' = [answer EXCEPT ![c] = used[c]]
       /\ filling' = [filling EXCEPT ![s] = [packet |-> p, len |-> len, imm |-> imm]]
    /\ UNCHANGED <<queues, freeing, kernel, crashed, accepted, used>>

\* AllocPacket(inLen) takes the packet at index _used of its pool.
SendAlloc(s, len, imm) ==
    /\ SendCalled(s, len, imm)
    /\ ~CanAppend(s, len) \/ imm
    /\ Fitting(len) # {}
    /\ LET c == ClassOf(len)
           p == <<c, used[c]>> IN
       /\ used[c] # PoolSize
       /\ mem' = [mem EXCEPT ![p] = Released(c)]
       /\ used' = [used EXCEPT ![c] = @ + 1]
       /\ live' = [live EXCEPT ![c][used[c]] = @ + 1]
       /\ answer' = [answer EXCEPT ![c] = used[c]]
       /\ filling' = [filling EXCEPT ![s] = [packet |-> p, len |-> len, imm |-> imm]]
    /\ UNCHANGED <<queues, freeing, kernel, crashed, accepted>>

\* AllocPacket answers nullptr and Send dereferences it: the pool of the class
\* is empty.
SendAllocFull(s, len, imm) ==
    /\ SendCalled(s, len, imm)
    /\ ~CanAppend(s, len) \/ imm
    /\ Fitting(len) # {}
    /\ LET c == ClassOf(len) IN
       /\ used[c] = PoolSize
       /\ answer' = [answer EXCEPT ![c] = Nil]
    /\ crashed' = TRUE
    /\ UNCHANGED <<mem, queues, filling, freeing, kernel, accepted, used, live>>

\* The same when no class holds the message (MAX_PACKET_BUF_SIZE).
SendTooLong(s, len, imm) ==
    /\ SendCalled(s, len, imm)
    /\ ~CanAppend(s, len) \/ imm
    /\ Fitting(len) = {}
    /\ crashed' = TRUE
    /\ UNCHANGED <<mem, queues, filling, freeing, kernel, accepted, pools>>

\* The new packet with its first message.
Filled(s) ==
    LET f == filling[s] IN
    [mem[f.packet] EXCEPT !.msgs = <<Message(s, f.len)>>,
                          !.imm = f.imm,
                          !.size = f.len + HDR,
                          !.remain = (@ - (f.len + HDR)) % Wrap]

\* Mutant: the posted packet is not remembered.
SendFirstForgets(s) ==
    /\ Running /\ filling[s] # Nil
    /\ sendingPacket[s] = Nil
    /\ LET p == filling[s].packet IN
       /\ mem' = [mem EXCEPT ![p] = [Filled(s) EXCEPT !.sending = TRUE]]
       /\ lastPacket' = [lastPacket EXCEPT ![s] = p]
       /\ Post(s, p, mem')
    /\ Accept(s, Message(s, filling[s].len))
    /\ filling' = [filling EXCEPT ![s] = Nil]
    /\ UNCHANGED <<sendingPacket, freeing, completions, broken, wire, crashed, pools>>

\* Nothing is being sent: the packet is posted at once.
SendFirst(s) ==
    /\ Running /\ filling[s] # Nil
    /\ sendingPacket[s] = Nil
    /\ LET p == filling[s].packet IN
       /\ mem' = [mem EXCEPT ![p] = [Filled(s) EXCEPT !.sending = TRUE]]
       /\ sendingPacket' = [sendingPacket EXCEPT ![s] = p]
       /\ lastPacket' = [lastPacket EXCEPT ![s] = p]
       /\ Post(s, p, mem')
    /\ Accept(s, Message(s, filling[s].len))
    /\ filling' = [filling EXCEPT ![s] = Nil]
    /\ UNCHANGED <<freeing, completions, broken, wire, crashed, pools>>

\* Mutant: the queue's last packet is not moved on.
SendQueuedLost(s) ==
    /\ Running /\ filling[s] # Nil
    /\ sendingPacket[s] # Nil
    /\ LET p == filling[s].packet IN
       mem' = [[mem EXCEPT ![p] = Filled(s)] EXCEPT ![lastPacket[s]].next = p]
    /\ Accept(s, Message(s, filling[s].len))
    /\ filling' = [filling EXCEPT ![s] = Nil]
    /\ UNCHANGED <<queues, freeing, kernel, crashed, pools>>

\* A packet is being sent: the new one goes to the end of the queue.
SendQueued(s) ==
    /\ Running /\ filling[s] # Nil
    /\ sendingPacket[s] # Nil
    /\ LET p == filling[s].packet IN
       /\ mem' = [[mem EXCEPT ![p] = Filled(s)] EXCEPT ![lastPacket[s]].next = p]
       /\ lastPacket' = [lastPacket EXCEPT ![s] = p]
    /\ Accept(s, Message(s, filling[s].len))
    /\ filling' = [filling EXCEPT ![s] = Nil]
    /\ UNCHANGED <<sendingPacket, freeing, kernel, crashed, pools>>

-----------------------------------------------------------------------------
(* TCPSocket::OnWriteCallback                                              *)

\* Mutant: the packet that was sent is posted again, in place of the next one.
WriteCallbackResends(s) ==
    /\ GuardFree(s) /\ completions[s] > 0
    /\ sendingPacket[s] # Nil
    /\ completions' = [completions EXCEPT ![s] = @ - 1]
    /\ freeing' = [freeing EXCEPT ![s] = sendingPacket[s]]
    /\ LET next == mem[sendingPacket[s]].next IN
       /\ sendingPacket' = [sendingPacket EXCEPT ![s] = next]
       /\ IF next # Nil
          THEN /\ mem' = [mem EXCEPT ![next].sending = TRUE]
               /\ Post(s, sendingPacket[s], mem')
               /\ UNCHANGED lastPacket
          ELSE /\ lastPacket' = [lastPacket EXCEPT ![s] = Nil]
               /\ UNCHANGED <<mem, posted>>
    /\ UNCHANGED <<filling, broken, wire, crashed, accepted, pools>>

\* Mutant: the queue is advanced, and the next packet is never posted.
WriteCallbackIdle(s) ==
    /\ GuardFree(s) /\ completions[s] > 0
    /\ sendingPacket[s] # Nil
    /\ completions' = [completions EXCEPT ![s] = @ - 1]
    /\ freeing' = [freeing EXCEPT ![s] = sendingPacket[s]]
    /\ LET next == mem[sendingPacket[s]].next IN
       /\ sendingPacket' = [sendingPacket EXCEPT ![s] = next]
       /\ IF next # Nil
          THEN mem' = [mem EXCEPT ![next].sending = TRUE] /\ UNCHANGED lastPacket
          ELSE lastPacket' = [lastPacket EXCEPT ![s] = Nil] /\ UNCHANGED mem
    /\ UNCHANGED <<filling, posted, broken, wire, crashed, accepted, pools>>

\* The packet that was sent leaves the queue; the next one, if any, is posted.
WriteCallback(s) ==
    /\ GuardFree(s) /\ completions[s] > 0
    /\ sendingPacket[s] # Nil
    /\ completions' = [completions EXCEPT ![s] = @ - 1]
    /\ freeing' = [freeing EXCEPT ![s] = sendingPacket[s]]
    /\ LET next == mem[sendingPacket[s]].next IN
       /\ sendingPacket' = [sendingPacket EXCEPT ![s] = next]
       /\ IF next # Nil
          THEN /\ mem' = [mem EXCEPT ![next].sending = TRUE]
               /\ Post(s, next, mem')
               /\ UNCHANGED lastPacket
          ELSE /\ lastPacket' = [lastPacket EXCEPT ![s] = Nil]
               /\ UNCHANGED <<mem, posted>>
    /\ UNCHANGED <<filling, broken, wire, crashed, accepted, pools>>

\* Mutant: the packet goes back without Release().
FreeUnreleased(s) ==
    /\ Running /\ freeing[s] # Nil
    /\ LET c == freeing[s][1]
           i == freeing[s][2] IN
       /\ used' = [used EXCEPT ![c] = @ - 1]
       /\ live' = [live EXCEPT ![c][i] = @ - 1]
    /\ freeing' = [freeing EXCEPT ![s] = Nil]
    /\ UNCHANGED <<mem, queues, filling, kernel, crashed, accepted, answer>>

\* Mutant: the packet is not given back.
FreeForgotten(s) ==
    /\ Running /\ freeing[s] # Nil
    /\ freeing' = [freeing EXCEPT ![s] = Nil]
    /\ UNCHANGED <<mem, queues, filling, kernel, crashed, accepted, pools>>

\* PacketSelector::FreePacket(temp), and the guard is left.
FreePacket(s) ==
    /\ Running /\ freeing[s] # Nil
    /\ LET c == freeing[s][1]
           i == freeing[s][2] IN
       /\ mem' = [mem EXCEPT ![freeing[s]] = Released(c)]
       /\ used' = [used EXCEPT ![c] = @ - 1]
       /\ live' = [live EXCEPT ![c][i] = @ - 1]
    /\ freeing' = [freeing EXCEPT ![s] = Nil]
    /\ UNCHANGED <<queues, filling, kernel, crashed, accepted, answer>>

-----------------------------------------------------------------------------
(* The kernel and the peer                                                 *)

\* The oldest posted buffer goes out, with what it holds now.
Transmit(s) ==
    /\ Running /\ s \notin broken /\ posted[s] # <<>>
    /\ LET post == Head(posted[s]) IN
       wire' = [wire EXCEPT ![s] = @ \o SubSeq(mem[post.packet].msgs, 1, post.len)]
    /\ posted' = [posted EXCEPT ![s] = Tail(@)]
    /\ completions' = [completions EXCEPT ![s] = @ + 1]
    /\ UNCHANGED <<mem, queues, filling, freeing, broken, crashed, accepted, pools>>

BreakConnection(s) ==
    /\ Running /\ s \notin broken
    /\ Cardinality(broken) < MaxBreaks
    /\ broken' = broken \cup {s}
    /\ UNCHANGED <<mem, queues, filling, freeing, posted, completions, wire, crashed, accepted, pools>>

\* A posted send completes with an error: DokeviServer::ThreadTask never calls
\* OnWriteCallback for it (DokeviServer.cpp:96-109).
FailPosted(s) ==
    /\ Running /\ s \in broken /\ posted[s] # <<>>
    /\ posted' = [posted EXCEPT ![s] = Tail(@)]
    /\ UNCHANGED <<mem, queues, filling, freeing, completions, broken, wire, crashed, accepted, pools>>

-----------------------------------------------------------------------------
Send(s) ==
    \/ SendFirst(s)
    \/ SendQueued(s)
    \/ \E m \in Messages :
        \/ SendAppend(s, m[1], m[2])
        \/ SendAlloc(s, m[1], m[2])
        \/ SendAllocFull(s, m[1], m[2])
        \/ SendTooLong(s, m[1], m[2])

OnWriteCallback(s) == WriteCallback(s) \/ FreePacket(s)

Kernel(s) == Transmit(s) \/ BreakConnection(s) \/ FailPosted(s)

Next == \E s \in Sockets : Send(s) \/ OnWriteCallback(s) \/ Kernel(s)

Spec == Init /\ [][Next]_vars

\* An IO thread serves each completion and a thread inside a guard goes on; the
\* kernel transmits what a live connection was given.
Fairness == \A s \in Sockets :
    /\ WF_vars(SendFirst(s) \/ SendQueued(s))
    /\ WF_vars(OnWriteCallback(s))
    /\ WF_vars(Transmit(s) \/ FailPosted(s))

FairSpec == Spec /\ Fairness

-----------------------------------------------------------------------------
(* Properties                                                              *)

Lens == {m[1] : m \in Messages}

TypeOK ==
    /\ mem \in [Packets -> [msgs : Seq([from : Sockets, n : Nat \ {0}, len : Lens]),
                           imm : BOOLEAN, sending : BOOLEAN, size : Nat,
                           remain : 0 .. Wrap - 1, next : Packets \cup {Nil}]]
    /\ used \in [Classes -> 0 .. PoolSize]
    /\ sendingPacket \in [Sockets -> Packets \cup {Nil}]
    /\ lastPacket \in [Sockets -> Packets \cup {Nil}]
    /\ filling \in [Sockets -> [packet : Packets, len : Lens, imm : BOOLEAN] \cup {Nil}]
    /\ freeing \in [Sockets -> Packets \cup {Nil}]
    /\ posted \in [Sockets -> Seq([packet : Packets, len : Nat])]
    /\ completions \in [Sockets -> Nat]
    /\ broken \subseteq Sockets
    /\ crashed \in BOOLEAN

\* The packets of a socket from _sendingPacket along _next; if the links form
\* a cycle, one packet more than there are.
Chain(s) ==
    LET n == Cardinality(Packets)
        walk[k \in 0 .. n] ==
            IF k = 0 THEN IF sendingPacket[s] = Nil THEN <<>> ELSE <<sendingPacket[s]>>
            ELSE LET w == walk[k - 1] IN
                 IF w = <<>> \/ mem[Last(w)].next = Nil THEN w
                 ELSE Append(w, mem[Last(w)].next)
    IN  walk[n]

\* Packets a socket uses, outside its queue included.
Held(s) ==
    ToSet(Chain(s)) \cup (IF filling[s] = Nil THEN {} ELSE {filling[s].packet})
                   \cup ({freeing[s]} \ {Nil})

\* Messages queued and not yet transmitted, in queue order.
Pending(s) ==
    LET chain == Chain(s)
        waiting == IF completions[s] > 0 THEN Tail(chain) ELSE chain
    IN  FlattenSeq([i \in DOMAIN waiting |-> mem[waiting[i]].msgs])

\* A socket is idle, or its packet is posted once, or its one completion waits; a
\* Send in progress has its packet: the inductive invariant.
InFlightInv ==
    /\ DOMAIN posted = Sockets /\ DOMAIN completions = Sockets
    /\ DOMAIN sendingPacket = Sockets /\ DOMAIN filling = Sockets
    /\ used \in [Classes -> Int]
    /\ \A s \in Sockets :
        /\ filling[s] # Nil => filling[s].packet # Nil
        /\ \/ posted[s] = <<>> /\ completions[s] = 0
           \/ /\ sendingPacket[s] # Nil
              /\ \/ posted[s] = <<>> /\ completions[s] = 1
                 \/ posted[s] # <<>> /\ posted[s] = <<Head(posted[s])>> /\ completions[s] = 0

\* _size and _remainSize agree with the content of every queued packet.
SizesAgree ==
    \A s \in Sockets : \A i \in DOMAIN Chain(s) :
        LET p == Chain(s)[i]
            lens == [k \in DOMAIN mem[p].msgs |-> mem[p].msgs[k].len + HDR] IN
        /\ mem[p].size = FoldSeq(+, 0, lens)
        /\ mem[p].size + mem[p].remain = p[1]

\* No two queues, and no queue twice, use one packet: what "the client allocates
\* packet from atomic-packet pool" promises.
NoSharedPacket ==
    /\ \A s \in Sockets :
        /\ IsInjective(Chain(s))
        /\ freeing[s] \notin ToSet(Chain(s))
        /\ filling[s] # Nil => filling[s].packet \notin ToSet(Chain(s))
    /\ \A s, t \in Sockets : s # t => Held(s) \cap Held(t) = {}

\* As long as no packet is lent twice or overflows, each queue is a list without
\* repetition that ends at _lastPacket, no packet is used twice, by one socket or by
\* two, and packets hold what their sizes say (TCPSocket.cpp:137-208).
QueuesWellFormed ==
    /\ TypeOK /\ InFlightInv
    /\ Sound =>
        /\ SizesAgree /\ NoSharedPacket
        /\ \A s \in Sockets :
            /\ lastPacket[s] = IF Chain(s) = <<>> THEN Nil ELSE Last(Chain(s))
            /\ \A i \in DOMAIN Chain(s) : mem[Chain(s)[i]].sending <=> i = 1

\* As long as no packet is lent twice or overflows, what was transmitted, followed by
\* what is queued, is what Send accepted: nothing is lost, duplicated, reordered or
\* sent to another socket.
NothingLost == Sound => \A s \in Sockets : wire[s] \o Pending(s) = accepted[s]

\* As long as no packet is lent twice or overflows, a pool counts exactly the packets
\* the sockets use: none leaks on its way, none is counted twice.  (What a broken
\* connection has queued stays in its queue, and allocated, for ever.)
NoLeak ==
    Sound => \A c \in Classes :
        used[c] = Cardinality({p \in UNION {Held(s) : s \in Sockets} : p[1] = c})

\* At most one WSASend per socket is outstanding, and while one is, the packet
\* it sends is remembered: OnWriteCallback never finds _sendingPacket null
\* (the check at TCPSocket.cpp:145-146).
CallbackHasPacket ==
    \A s \in Sockets :
        /\ Len(posted[s]) + completions[s] <= 1
        /\ Len(posted[s]) + completions[s] = 1 => sendingPacket[s] # Nil

\* The buffer the kernel holds is not touched until its send is over: no Send appends
\* to it and no pool operation resets it, unless a packet is lent a second time.
PostedBufferKept ==
    [][Sound' => \A s \in Sockets : posted[s] # <<>> /\ posted'[s] = posted[s]
            => LET p == Head(posted[s]).packet IN mem'[p].msgs = mem[p].msgs]_vars

\* Each pool sees the calls it was built for: a packet is freed once for each
\* time it was allocated, and written only while it is out.
Pool(c) == INSTANCE AtomicStaticPool
    WITH Size <- PoolSize, NoSlot <- Nil, used <- used[c], live <- live[c],
         dirty <- {i \in Index : mem[<<c, i>>] # Released(c)}, answer <- answer[c]
UsesPools ==
    /\ \A c \in Classes : Pool(c)!Init
    /\ [][\A c \in Classes : [Pool(c)!Next]_(Pool(c)!vars)]_vars

\* A pool in which no packet below _used is free lends, refuses and takes back as a pool
\* promises: it is a free packet below _used that makes it lend one twice.
PoolsKeepPromise ==
    [][\A c \in Classes : ~Pool(c)!Hole =>
        [Pool(c)!Exclusively!Next]_(Pool(c)!Exclusively!vars)]_vars

\* A packet overflows in one way only: by the header of a single message that its class
\* was chosen for without it (TCPSocket.cpp:185 and :187); no append overflows.
OverflowsByHeader ==
    \A p \in Packets : mem[p].size > p[1] =>
        /\ mem[p].size <= p[1] + HDR
        /\ Len(mem[p].msgs) = 1

\* Everything Send accepts is transmitted, unless the process crashes, a packet is lent
\* twice or overflows, or the connection breaks.
Delivered ==
    \A s \in Sockets :
        (wire[s] # accepted[s]) ~> (wire[s] = accepted[s] \/ ~Running \/ s \in broken)

\* What is written into a packet fits its buffer: the check for an oversized
\* request (PacketSelector.h:35-39) guards the size that is written.
FitsBuffer == \A p \in Packets : mem[p].size <= p[1]
=============================================================================
