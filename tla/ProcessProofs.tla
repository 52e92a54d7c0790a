--------------------------- MODULE ProcessProofs ----------------------------
(***************************************************************************)
(* For any IO threads, depths and options: the types; an index of its own  *)
(* for each registered thread; one value for each option; the crash report *)
(* has the functions a thread stays in; and ReleaseManagers does not       *)
(* return once an IO thread runs.                                          *)
(*                                                                         *)
(* A step of the process is a step of each component or leaves it alone;   *)
(* what is proved of a component rests on its steps only.                  *)
(***************************************************************************)
EXTENDS Process, FiniteSetTheorems, TLAPS

TracerStep ==
    \/ \E t \in Threads :
        \/ Tracer!RegisterThread(t) \/ Tracer!WriteFrame(t) \/ Tracer!Leave(t)
        \/ \E f \in Recorded : Tracer!Enter(t, f) \/ Tracer!EnterTooDeep(t, f)
    \/ \E t \in Workers : Tracer!EndThread(t)
    \/ Tracer!GetStackFrameArray
    \/ UNCHANGED tracer

ConfigStep ==
    \/ \E t \in Threads, k \in Keys : Config!Get(t, k)
    \/ \E t \in Threads : Config!GoOn(t)
    \/ \E k \in Keys : Config!Edit(k)
    \/ UNCHANGED config

ManagerStep ==
    \/ \E t \in Workers : Manager!TaskRun(t) \/ Manager!LockInfo(t) \/ Manager!InsertInfo(t)
    \/ Manager!Join(ended)
    \/ UNCHANGED manager

\* The types of what the process itself keeps.
ControlOK ==
    /\ main \in {"run", "running", "loop", "finalize", "released"}
    /\ task \in [Workers -> {"new", "start", "register", "lock", "insert", "registered", "serve",
                             "unwind", "end", "ended"}]
    /\ faulty \in Workers \cup {Nil} /\ dead \in BOOLEAN /\ logs \in BOOLEAN
    /\ report \in {"no", "minidump", "stacks", "file", "written"}

LEMMA WorkersAreThreads == Workers \subseteq Threads /\ Main \in Threads
  BY DEF Threads

LEMMA StepsOfTracer == [Next]_vars => TracerStep
<1> SUFFICES ASSUME [Next]_vars PROVE TracerStep
  OBVIOUS
<1> USE WorkersAreThreads DEF Enter, Recorded
<1>1. CASE Run
  BY <1>1 DEF Run, BeginRun, RunTask, EndRun, TracerStep
<1>2. CASE ReleaseManagers
  BY <1>2 DEF ReleaseManagers, WaitForAllThread, Finalize, TracerStep
<1>3. CASE UnhandledHandler
  BY <1>3 DEF UnhandledHandler, MakeMinidump, ReportCallStack, MakeReportFile, TracerStep
<1>4. CASE EditFile
  BY <1>4 DEF EditFile, TracerStep
<1>5. ASSUME NEW t \in Workers, ThreadTask(t) PROVE TracerStep
  <2>1. CASE RegisterStack(t) \/ Begin(t) \/ Written(t)
    BY <2>1 DEF RegisterStack, Begin, Written, TracerStep
  <2>2. CASE Register(t)
    BY <2>2 DEF Register, TracerStep
  <2>3. CASE Call(t)
    <3>1. \E f \in Recorded : Tracer!Enter(t, f)
      BY <2>3 DEF Call
    <3> QED
      BY <3>1 DEF TracerStep
  <2>4. CASE CallTooDeep(t)
    <3>1. \E f \in Recorded : Tracer!EnterTooDeep(t, f)
      BY <2>4 DEF CallTooDeep
    <3> QED
      BY <3>1 DEF TracerStep
  <2>5. CASE Return(t) \/ GetInt(t) \/ GoOn(t) \/ Throw(t) \/ Unwind(t) \/ Catch(t) \/ End(t)
    BY <2>5 DEF Return, GetInt, GoOn, Throw, Unwind, Catch, End, TracerStep
  <2> QED
    BY <1>5, <2>1, <2>2, <2>3, <2>4, <2>5 DEF ThreadTask
<1>6. ASSUME NEW t \in Workers, Fault(t) PROVE TracerStep
  BY <1>6 DEF Fault, TracerStep
<1>7. CASE Written(Main)
  BY <1>7 DEF Written, TracerStep
<1>8. CASE UNCHANGED vars
  BY <1>8 DEF vars, TracerStep
<1> QED
  BY <1>1, <1>2, <1>3, <1>4, <1>5, <1>6, <1>7, <1>8 DEF Next

LEMMA StepsOfConfig == ControlOK /\ [Next]_vars => ConfigStep
<1> SUFFICES ASSUME ControlOK, [Next]_vars PROVE ConfigStep
  OBVIOUS
<1> USE WorkersAreThreads
<1>1. CASE Run \/ ReleaseManagers \/ EditFile \/ Written(Main)
  BY <1>1 DEF Run, BeginRun, RunTask, EndRun, ReleaseManagers, WaitForAllThread, Finalize, EditFile,
              Written, ConfigStep
<1>2. CASE UnhandledHandler
  <2>1. CASE MakeMinidump
    <3>1. faulty \in Threads
      BY <2>1 DEF MakeMinidump, ControlOK
    <3> QED
      BY <2>1, <3>1 DEF MakeMinidump, ConfigStep
  <2>2. CASE ReportCallStack \/ MakeReportFile
    BY <2>2 DEF ReportCallStack, MakeReportFile, ConfigStep
  <2> QED
    BY <1>2, <2>1, <2>2 DEF UnhandledHandler
<1>3. ASSUME NEW t \in Workers, ThreadTask(t) \/ Fault(t) PROVE ConfigStep
  BY <1>3 DEF ThreadTask, Fault, RegisterStack, Begin, Written, Register, Call, CallTooDeep, Return,
              GetInt, GoOn, Throw, Unwind, Catch, End, ConfigStep
<1>4. CASE UNCHANGED vars
  BY <1>4 DEF vars, ConfigStep
<1> QED
  BY <1>1, <1>2, <1>3, <1>4 DEF Next

LEMMA StepsOfManager == [Next]_vars => ManagerStep
<1> SUFFICES ASSUME [Next]_vars PROVE ManagerStep
  OBVIOUS
<1>1. CASE Run \/ ReleaseManagers \/ EditFile \/ Written(Main) \/ UnhandledHandler
  BY <1>1 DEF Run, BeginRun, RunTask, EndRun, ReleaseManagers, WaitForAllThread, Finalize, EditFile,
              Written, UnhandledHandler, MakeMinidump, ReportCallStack, MakeReportFile, ManagerStep
<1>2. ASSUME NEW t \in Workers, ThreadTask(t) \/ Fault(t) PROVE ManagerStep
  BY <1>2 DEF ThreadTask, Fault, RegisterStack, Begin, Written, Register, Call, CallTooDeep, Return,
              GetInt, GoOn, Throw, Unwind, Catch, End, ManagerStep
<1>3. CASE UNCHANGED vars
  BY <1>3 DEF vars, ManagerStep
<1> QED
  BY <1>1, <1>2, <1>3 DEF Next

LEMMA ControlStep == ControlOK /\ [Next]_vars => ControlOK'
<1> SUFFICES ASSUME ControlOK, [Next]_vars PROVE ControlOK'
  OBVIOUS
<1>1. CASE Run \/ ReleaseManagers \/ EditFile \/ Written(Main)
  BY <1>1 DEF Run, BeginRun, RunTask, EndRun, ReleaseManagers, WaitForAllThread, Finalize, EditFile,
              Written, crash, ControlOK
<1>2. CASE UnhandledHandler
  BY <1>2 DEF UnhandledHandler, MakeMinidump, ReportCallStack, MakeReportFile, ControlOK
<1>3. ASSUME NEW t \in Workers, ThreadTask(t) \/ Fault(t) PROVE ControlOK'
  BY <1>3 DEF ThreadTask, Fault, FirstFault, Goto, Enter, RegisterStack, Begin, Written, Register, Call,
              CallTooDeep, Return, GetInt, GoOn, Throw, Unwind, Catch, End, crash, ControlOK
<1>4. CASE UNCHANGED vars
  BY <1>4 DEF vars, crash, ControlOK
<1> QED
  BY <1>1, <1>2, <1>3, <1>4 DEF Next

-----------------------------------------------------------------------------
(* ThreadManager                                                           *)

\* The next index was given to nobody.
ManagerInv ==
    /\ pool \in Seq(Workers) /\ joined \subseteq ended
    /\ count \in Nat /\ size \in Nat /\ mutex \in Workers \cup {Nil}
    /\ info \in [Threads -> Nat \cup {Nil}]
    /\ \A t \in Threads : info[t] # Nil => info[t] < count
    /\ \A t, u \in Threads : info[t] # Nil /\ info[t] = info[u] => t = u

LEMMA ManagerInit == Init => ManagerInv
<1> SUFFICES ASSUME Init PROVE ManagerInv
  OBVIOUS
<1>1. /\ pool = <<>> /\ joined = {} /\ count = 1 /\ size = 1 /\ mutex = Nil
      /\ info = [t \in Threads |-> IF t = Main THEN 0 ELSE Nil]
  BY DEF Init, Manager!Init, Threads
<1> QED
  BY <1>1 DEF ManagerInv

LEMMA ManagerKept ==
    ManagerInv /\ ManagerStep /\ ended \subseteq ended' => ManagerInv'
<1> SUFFICES ASSUME ManagerInv, ManagerStep, ended \subseteq ended' PROVE ManagerInv'
  OBVIOUS
<1> USE WorkersAreThreads
<1>1. ASSUME NEW t \in Workers, Manager!TaskRun(t) PROVE ManagerInv'
  BY <1>1 DEF Manager!TaskRun, ManagerInv
<1>2. ASSUME NEW t \in Workers, Manager!LockInfo(t) PROVE ManagerInv'
  BY <1>2 DEF Manager!LockInfo, ManagerInv
<1>3. ASSUME NEW t \in Workers, Manager!InsertInfo(t) PROVE ManagerInv'
  <2>1. info' = [info EXCEPT ![t] = count] /\ count' = count + 1 /\ count \in Nat
        /\ size' \in Nat /\ mutex' = Nil /\ pool' = pool /\ joined' = joined
    BY <1>3 DEF Manager!InsertInfo, ManagerInv
  <2>2. info' \in [Threads -> Nat \cup {Nil}]
    BY <2>1 DEF ManagerInv
  <2>3. info'[t] = count /\ \A u \in Threads : u # t => info'[u] = info[u]
    BY <2>1 DEF ManagerInv
  <2>4. ASSUME NEW u \in Threads, info'[u] # Nil PROVE info'[u] < count'
    <3>1. CASE u = t
      BY <2>1, <2>3, <3>1
    <3>2. CASE u # t
      <4>1. info[u] \in Nat /\ info[u] < count
        BY <2>3, <2>4, <3>2 DEF ManagerInv
      <4> QED
        BY <2>1, <2>3, <3>2, <4>1
    <3> QED
      BY <3>1, <3>2
  <2>5. ASSUME NEW u \in Threads, NEW v \in Threads, info'[u] # Nil, info'[u] = info'[v]
        PROVE  u = v
    <3>1. ASSUME NEW x \in Threads, x # t, info'[x] # Nil PROVE info'[x] # count
      BY <2>1, <2>3, <3>1 DEF ManagerInv
    <3> QED
      BY <2>3, <2>5, <3>1 DEF ManagerInv
  <2> QED
    BY <2>1, <2>2, <2>4, <2>5 DEF ManagerInv
<1>4. CASE Manager!Join(ended)
  <2>1. UNCHANGED <<pool, count, size, info, mutex>> /\ joined' \subseteq ended
    BY <1>4 DEF Manager!Join, ManagerInv
  <2> QED
    BY <2>1 DEF ManagerInv
<1>5. CASE UNCHANGED manager
  BY <1>5 DEF manager, ManagerInv
<1> QED
  BY <1>1, <1>2, <1>3, <1>4, <1>5 DEF ManagerStep

LEMMA EndedGrows == TracerStep => ended \subseteq ended'
  BY DEF TracerStep, tracer, Tracer!arrays, Tracer!RegisterThread, Tracer!WriteFrame, Tracer!Leave,
         Tracer!Enter, Tracer!EnterTooDeep, Tracer!EndThread, Tracer!GetStackFrameArray,
         Tracer!BeginDump, Tracer!ReadDepth, Tracer!CopyFrame, Tracer!NextStack, Tracer!EndDump

-----------------------------------------------------------------------------
(* ConfigManager                                                           *)

\* A call knows its key; inside the lock it knows what the cache holds; and what
\* was answered is what the cache holds.
ConfigInv ==
    /\ file \in [Keys -> Config!Values] /\ cache \in [Keys -> Config!Values \cup {Nil}]
    /\ getting \in [Threads -> [pc : {"no", "lock", "read", "answer"}, key : Keys \cup {Nil}]]
    /\ inside \in Threads \cup {Nil} /\ answers \in [Keys -> SUBSET Config!Values]
    /\ \A t \in Threads : getting[t].pc # "no" => getting[t].key \in Keys
    /\ \A t \in Threads : getting[t].pc \in {"read", "answer"} => inside = t
    /\ \A t \in Threads : getting[t].pc = "read" => cache[getting[t].key] = Nil
    /\ \A t \in Threads : getting[t].pc = "answer" => cache[getting[t].key] # Nil
    /\ \A k \in Keys : answers[k] = {} \/ (cache[k] # Nil /\ answers[k] = {cache[k]})

LEMMA ConfigInit == Init => ConfigInv
<1> SUFFICES ASSUME Init PROVE ConfigInv
  OBVIOUS
<1> QED
  BY DEF Init, Config!Init, Config!Values, Config!NoCall, ConfigInv

LEMMA ConfigKept == ConfigInv /\ ConfigStep => ConfigInv'
<1> SUFFICES ASSUME ConfigInv, ConfigStep PROVE ConfigInv'
  OBVIOUS
<1> USE ThreadsAssumption, NilAssumption DEF Config!Goto, Config!NoCall
<1>1. ASSUME NEW t \in Threads, NEW k \in Keys, Config!Get(t, k) PROVE ConfigInv'
  <2>1. getting' = [getting EXCEPT ![t] = [pc |-> "lock", key |-> k]]
        /\ UNCHANGED <<file, cache, inside, answers>>
    BY <1>1 DEF Config!Get
  <2> QED
    BY <2>1 DEF ConfigInv
<1>2. ASSUME NEW t \in Threads, Config!Lock(t) PROVE ConfigInv'
  <2>1. inside = Nil /\ inside' = t /\ getting[t].pc = "lock" /\ UNCHANGED <<file, cache, answers>>
    BY <1>2 DEF Config!Lock
  <2>2. getting' = [getting EXCEPT ![t].pc = IF cache[getting[t].key] = Nil THEN "read" ELSE "answer"]
    BY <1>2 DEF Config!Lock
  <2>3. \A u \in Threads : getting[u].pc \notin {"read", "answer"}
    BY <2>1 DEF ConfigInv
  <2> QED
    BY <2>1, <2>2, <2>3 DEF ConfigInv
<1>3. ASSUME NEW t \in Threads, Config!ReadFile(t) PROVE ConfigInv'
  <2> DEFINE k == getting[t].key
  <2>1. /\ k \in Keys /\ inside = t /\ cache[k] = Nil /\ answers[k] = {} /\ file[k] # Nil
        /\ cache' = [cache EXCEPT ![k] = file[k]]
        /\ getting' = [getting EXCEPT ![t].pc = "answer"]
        /\ UNCHANGED <<file, inside, answers>>
    BY <1>3 DEF Config!ReadFile, ConfigInv, Config!Values
  <2>2. \A u \in Threads : u # t => getting'[u] = getting[u] /\ getting[u].pc \notin {"read", "answer"}
    BY <2>1 DEF ConfigInv
  <2>3. getting'[t] = [pc |-> "answer", key |-> k]
    BY <2>1 DEF ConfigInv
  <2>4. cache' \in [Keys -> Config!Values \cup {Nil}] /\ cache'[k] # Nil
        /\ \A j \in Keys : j # k => cache'[j] = cache[j]
    BY <2>1 DEF ConfigInv
  <2>5. getting' \in [Threads -> [pc : {"no", "lock", "read", "answer"}, key : Keys \cup {Nil}]]
    BY <2>1 DEF ConfigInv
  <2> QED
    BY <2>1, <2>2, <2>3, <2>4, <2>5 DEF ConfigInv
<1>4. ASSUME NEW t \in Threads, Config!Answer(t) PROVE ConfigInv'
  <2> DEFINE k == getting[t].key
  <2>1. /\ k \in Keys /\ inside = t /\ cache[k] # Nil /\ cache[k] \in Config!Values
        /\ answers' = [answers EXCEPT ![k] = @ \cup {cache[k]}]
        /\ getting' = [getting EXCEPT ![t] = [pc |-> "no", key |-> Nil]]
        /\ inside' = Nil /\ UNCHANGED <<file, cache>>
    BY <1>4 DEF Config!Answer, ConfigInv
  <2>2. \A u \in Threads : u # t => getting'[u] = getting[u] /\ getting[u].pc \notin {"read", "answer"}
    BY <2>1 DEF ConfigInv
  <2>3. getting'[t].pc = "no"
    BY <2>1 DEF ConfigInv
  <2>4. answers'[k] = {cache[k]} /\ \A j \in Keys : j # k => answers'[j] = answers[j]
    BY <2>1 DEF ConfigInv
  <2>5. answers' \in [Keys -> SUBSET Config!Values]
    BY <2>1 DEF ConfigInv
  <2>6. getting' \in [Threads -> [pc : {"no", "lock", "read", "answer"}, key : Keys \cup {Nil}]]
    BY <2>1 DEF ConfigInv
  <2> QED
    BY <2>1, <2>2, <2>3, <2>4, <2>5, <2>6 DEF ConfigInv
<1>5. ASSUME NEW k \in Keys, Config!Edit(k) PROVE ConfigInv'
  BY <1>5 DEF Config!Edit, Config!Values, ConfigInv
<1>6. CASE UNCHANGED config
  BY <1>6 DEF config, ConfigInv
<1> QED
  BY <1>1, <1>2, <1>3, <1>4, <1>5, <1>6 DEF ConfigStep, Config!GoOn

-----------------------------------------------------------------------------
(* StackTracer                                                             *)

TracerTypes ==
    /\ number \in [Threads -> Nat] /\ lastThreadId \in Nat
    /\ frames \in [Threads -> [0 .. MaxDepth - 1 -> Recorded \cup {Nil}]]
    /\ depth \in [Threads -> Int] /\ entering \in [Threads -> Recorded \cup {Nil}]
    /\ open \in [Threads -> Seq(Recorded)] /\ kept \in [Threads -> Int]
    /\ ended \subseteq Workers /\ balanced \in [Threads -> BOOLEAN]
    /\ dump \in [pc : {"no", "depth", "copy", "done", "failed"}, todo : SUBSET Threads,
                 of : Threads \cup {Nil}, limit : Int, stack : Seq(Recorded \cup {Nil})]

\* The functions whose frames are written.
WrittenFrames(t) == IF entering[t] = Nil THEN Len(open[t]) ELSE Len(open[t]) - 1

\* A thread that never met its maximal depth has its functions in its frames.
ThreadStack(t) ==
    balanced[t] =>
        /\ depth[t] = Len(open[t])
        /\ entering[t] # Nil => open[t] # <<>> /\ entering[t] = open[t][Len(open[t])]
        /\ Len(open[t]) <= MaxDepth - 1
        /\ \A i \in 1 .. WrittenFrames(t) : frames[t][i - 1] = open[t][i]
        /\ dump.pc # "no" => kept[t] <= WrittenFrames(t)

\* What is copied is what the thread is in since the copy began.
CopyInv ==
    /\ dump.pc = "depth" => dump.stack = <<>>
    /\ dump.pc = "copy" =>
        /\ dump.of \in Threads
        /\ dump.limit <= MaxDepth - 1
        /\ balanced[dump.of] =>
            /\ kept[dump.of] <= dump.limit
            /\ \A i \in 1 .. Len(dump.stack) :
                   i <= kept[dump.of] => dump.stack[i] = open[dump.of][i]

\* The arrays are never left behind their end.
DepthBound == \A t \in Threads : depth[t] <= MaxDepth - 1

StackInv == TracerTypes /\ DepthBound /\ CopyInv /\ \A t \in Threads : ThreadStack(t)

LEMMA MinOfTwo ==
    ASSUME NEW a \in Int, NEW b \in Int
    PROVE  /\ Tracer!Min({a, b}) \in {a, b}
           /\ Tracer!Min({a, b}) <= a /\ Tracer!Min({a, b}) <= b
<1>1. \E x \in {a, b} : \A y \in {a, b} : x <= y
  BY a <= b \/ b <= a
<1> QED
  BY <1>1 DEF Tracer!Min

LEMMA ExceptInt ==
    ASSUME NEW S, NEW f \in [S -> Int], NEW x, NEW n \in Int
    PROVE  [f EXCEPT ![x] = n] \in [S -> Int]
  OBVIOUS

LEMMA TracerInit == Init => StackInv
<1> SUFFICES ASSUME Init PROVE StackInv
  OBVIOUS
<1> USE BoundsAssumption, WorkersAreThreads DEF Init, Tracer!Init
<1>1. TracerTypes
  <2>1. dump \in [pc : {"no", "depth", "copy", "done", "failed"}, todo : SUBSET Threads,
                  of : Threads \cup {Nil}, limit : Int, stack : Seq(Recorded \cup {Nil})]
    BY DEF Tracer!NoDump
  <2>2. /\ number \in [Threads -> Nat] /\ lastThreadId \in Nat
        /\ frames \in [Threads -> [0 .. MaxDepth - 1 -> Recorded \cup {Nil}]]
        /\ depth \in [Threads -> Int] /\ entering \in [Threads -> Recorded \cup {Nil}]
        /\ open \in [Threads -> Seq(Recorded)] /\ kept \in [Threads -> Int]
        /\ ended \subseteq Workers /\ balanced \in [Threads -> BOOLEAN]
    OBVIOUS
  <2> QED
    BY <2>1, <2>2 DEF TracerTypes
<1>2. DepthBound /\ CopyInv
  BY DEF DepthBound, CopyInv, Tracer!NoDump
<1>3. \A t \in Threads : ThreadStack(t)
  BY DEF ThreadStack, WrittenFrames, Tracer!NoDump
<1> QED
  BY <1>1, <1>2, <1>3 DEF StackInv

LEMMA TypesKept == StackInv /\ TracerStep => TracerTypes'
<1> SUFFICES ASSUME StackInv, TracerStep PROVE TracerTypes'
  OBVIOUS
<1> USE BoundsAssumption, WorkersAreThreads DEF StackInv, TracerTypes, Tracer!arrays
<1>1. ASSUME NEW t \in Threads, Tracer!RegisterThread(t) PROVE TracerTypes'
  BY <1>1, SMTT(60) DEF Tracer!RegisterThread
<1>2. ASSUME NEW t \in Threads, NEW f \in Recorded, Tracer!Enter(t, f) PROVE TracerTypes'
  BY <1>2 DEF Tracer!Enter
<1>3. ASSUME NEW t \in Threads, Tracer!WriteFrame(t) PROVE TracerTypes'
  BY <1>3 DEF Tracer!WriteFrame
<1>4. ASSUME NEW t \in Threads, NEW f \in Recorded, Tracer!EnterTooDeep(t, f) PROVE TracerTypes'
  BY <1>4, SMTT(60) DEF Tracer!EnterTooDeep
<1>5. ASSUME NEW t \in Threads, Tracer!Leave(t) PROVE TracerTypes'
  <2>1. Tracer!Front(open[t]) \in Seq(Recorded)
    BY <1>5 DEF Tracer!Front, Tracer!Leave
  <2>2. Tracer!Min({kept[t], depth[t] - 1}) \in Int
    <3>1. kept[t] \in Int /\ depth[t] - 1 \in Int
      OBVIOUS
    <3>2. Tracer!Min({kept[t], depth[t] - 1}) \in {kept[t], depth[t] - 1}
      BY <3>1, MinOfTwo, Zenon
    <3> QED
      BY <3>1, <3>2
  <2>3. /\ kept' = kept \/ kept' = [kept EXCEPT ![t] = Tracer!Min({kept[t], depth[t] - 1})]
        /\ open' = [open EXCEPT ![t] = Tracer!Front(open[t])]
        /\ depth' = [depth EXCEPT ![t] = depth[t] - 1]
        /\ UNCHANGED <<number, lastThreadId, frames, entering, ended, dump, balanced>>
    BY <1>5 DEF Tracer!Leave
  <2>4. kept' \in [Threads -> Int]
    BY <2>2, <2>3
  <2>5. open' \in [Threads -> Seq(Recorded)] /\ depth' \in [Threads -> Int]
    BY <2>1, <2>3
  <2> QED
    BY <2>3, <2>4, <2>5
<1>6. ASSUME NEW t \in Workers, Tracer!EndThread(t) PROVE TracerTypes'
  BY <1>6 DEF Tracer!EndThread
<1>7. CASE Tracer!BeginDump
  <2>1. kept' \in [Threads -> Int]
    BY <1>7 DEF Tracer!BeginDump
  <2>2. dump' = [Tracer!NoDump EXCEPT !.pc = "depth", !.todo = {t \in Threads : number[t] # 0}]
    BY <1>7 DEF Tracer!BeginDump
  <2>3. dump' = [pc |-> "depth", todo |-> {t \in Threads : number[t] # 0}, of |-> Nil,
                 limit |-> 0, stack |-> <<>>]
    BY <2>2 DEF Tracer!NoDump
  <2>4. dump' \in [pc : {"no", "depth", "copy", "done", "failed"}, todo : SUBSET Threads,
                   of : Threads \cup {Nil}, limit : Int, stack : Seq(Recorded \cup {Nil})]
    BY <2>3
  <2>5. UNCHANGED <<number, lastThreadId, frames, depth, entering, open, balanced, ended>>
    BY <1>7 DEF Tracer!BeginDump
  <2> QED
    BY <2>1, <2>4, <2>5
<1>8. CASE Tracer!ReadDepth
  <2>1. PICK t \in Threads : \/ dump' = [dump EXCEPT !.pc = "copy", !.of = t, !.limit = depth[t]]
                             \/ dump' = [dump EXCEPT !.pc = "failed"]
    <3>1. (CHOOSE t \in dump.todo : TRUE) \in Threads
      BY <1>8 DEF Tracer!ReadDepth
    <3> QED
      BY <1>8, <3>1 DEF Tracer!ReadDepth
  <2> QED
    BY <1>8, <2>1 DEF Tracer!ReadDepth
<1>9. CASE Tracer!CopyFrame
  <2>1. dump.of \in Threads /\ Len(dump.stack) \in 0 .. MaxDepth - 1
    BY <1>9 DEF Tracer!CopyFrame, CopyInv
  <2>2. frames[dump.of][Len(dump.stack)] \in Recorded \cup {Nil}
    BY <2>1
  <2>3. Append(dump.stack, frames[dump.of][Len(dump.stack)]) \in Seq(Recorded \cup {Nil})
    BY <2>2
  <2>4. dump' = [dump EXCEPT !.stack = Append(dump.stack, frames[dump.of][Len(dump.stack)])]
        /\ UNCHANGED <<number, lastThreadId, frames, depth, entering, ended, open, kept, balanced>>
    BY <1>9 DEF Tracer!CopyFrame
  <2> QED
    BY <2>3, <2>4
<1>10. CASE Tracer!NextStack
  <2>1. kept' = [kept EXCEPT ![dump.of] = 0]
        /\ UNCHANGED <<number, lastThreadId, frames, depth, entering, open, balanced, ended>>
    BY <1>10 DEF Tracer!NextStack
  <2>2. dump' = [Tracer!NoDump EXCEPT !.pc = "depth", !.todo = dump.todo \ {dump.of}]
    BY <1>10 DEF Tracer!NextStack
  <2>3. dump' = [pc |-> "depth", todo |-> dump.todo \ {dump.of}, of |-> Nil,
                 limit |-> 0, stack |-> <<>>]
    BY <2>2 DEF Tracer!NoDump
  <2>4. dump' \in [pc : {"no", "depth", "copy", "done", "failed"}, todo : SUBSET Threads,
                   of : Threads \cup {Nil}, limit : Int, stack : Seq(Recorded \cup {Nil})]
    BY <2>3
  <2>5. kept' \in [Threads -> Int]
    <3>1. kept \in [Threads -> Int] /\ 0 \in Int
      OBVIOUS
    <3> QED
      BY <2>1, <3>1, ExceptInt, Zenon
  <2> QED
    BY <2>1, <2>4, <2>5
<1>11. CASE Tracer!EndDump
  BY <1>11 DEF Tracer!EndDump
<1>12. CASE UNCHANGED tracer
  BY <1>12 DEF tracer
<1>13. CASE Tracer!GetStackFrameArray
  BY <1>7, <1>8, <1>9, <1>10, <1>11, <1>13 DEF Tracer!GetStackFrameArray
<1> QED
  BY <1>1, <1>2, <1>3, <1>4, <1>5, <1>6, <1>12, <1>13, Zenon DEF TracerStep

LEMMA DepthKept == StackInv /\ TracerStep => DepthBound'
<1> SUFFICES ASSUME StackInv, TracerStep PROVE DepthBound'
  OBVIOUS
<1>0. /\ depth \in [Threads -> Int] /\ MaxDepth \in Nat
      /\ \A u \in Threads : depth[u] <= MaxDepth - 1
  BY BoundsAssumption DEF StackInv, TracerTypes, DepthBound
<1>1. \/ depth' = depth
      \/ \E t \in Threads : depth[t] <= MaxDepth - 2 /\ depth' = [depth EXCEPT ![t] = depth[t] + 1]
      \/ \E t \in Threads : depth' = [depth EXCEPT ![t] = depth[t] - 1]
  <2>1. ASSUME NEW t \in Threads, NEW f \in Recorded, Tracer!Enter(t, f)
        PROVE  depth[t] <= MaxDepth - 2 /\ depth' = [depth EXCEPT ![t] = depth[t] + 1]
    BY <2>1, <1>0 DEF Tracer!Enter
  <2>2. ASSUME NEW t \in Threads, Tracer!Leave(t) PROVE depth' = [depth EXCEPT ![t] = depth[t] - 1]
    BY <2>2 DEF Tracer!Leave
  <2>3. ASSUME NEW t \in Threads, NEW f \in Recorded, Tracer!EnterTooDeep(t, f) PROVE depth' = depth
    BY <2>3 DEF Tracer!EnterTooDeep
  <2>4. ASSUME NEW t \in Threads, Tracer!RegisterThread(t) \/ Tracer!WriteFrame(t) \/ Tracer!EndThread(t)
        PROVE  depth' = depth
    BY <2>4 DEF Tracer!RegisterThread, Tracer!WriteFrame, Tracer!EndThread, Tracer!arrays
  <2>5. CASE Tracer!GetStackFrameArray \/ UNCHANGED tracer
    BY <2>5 DEF Tracer!GetStackFrameArray, Tracer!BeginDump, Tracer!ReadDepth, Tracer!CopyFrame,
                Tracer!NextStack, Tracer!EndDump, Tracer!arrays, tracer
  <2> QED
    BY <2>1, <2>2, <2>3, <2>4, <2>5, WorkersAreThreads DEF TracerStep
<1> QED
  BY <1>0, <1>1 DEF DepthBound

\* What is known of the stack of one thread.
LEMMA ThreadFacts ==
    ASSUME StackInv, NEW t \in Threads
    PROVE  /\ ThreadStack(t) /\ depth[t] \in Int /\ kept[t] \in Int /\ open[t] \in Seq(Recorded)
           /\ Len(open[t]) \in Nat /\ (open[t] # <<>> => Len(open[t]) > 0)
           /\ frames[t] \in [0 .. MaxDepth - 1 -> Recorded \cup {Nil}]
           /\ MaxDepth \in Nat
  BY BoundsAssumption DEF StackInv, TracerTypes

LEMMA StackSame ==
    ASSUME NEW t \in Threads, ThreadStack(t), dump'.pc # "no" => dump.pc # "no",
           balanced'[t] = balanced[t], depth'[t] = depth[t], open'[t] = open[t],
           entering'[t] = entering[t], frames'[t] = frames[t], kept'[t] = kept[t]
    PROVE  ThreadStack(t)'
  BY DEF ThreadStack, WrittenFrames

LEMMA StackOfEnter ==
    ASSUME StackInv, NEW t \in Threads, NEW f \in Recorded, Tracer!Enter(t, f), NEW u \in Threads
    PROVE  ThreadStack(u)'
<1>1. /\ entering[t] = Nil /\ depth[t] \in 0 .. MaxDepth - 2
      /\ depth' = [depth EXCEPT ![t] = depth[t] + 1]
      /\ entering' = [entering EXCEPT ![t] = f]
      /\ open' = [open EXCEPT ![t] = Append(open[t], f)]
      /\ UNCHANGED <<frames, dump, kept, balanced>>
  BY DEF Tracer!Enter
<1>2. CASE u # t
  <2>1. depth'[u] = depth[u] /\ entering'[u] = entering[u] /\ open'[u] = open[u]
    BY <1>1, <1>2 DEF StackInv, TracerTypes
  <2> QED
    BY <1>1, <2>1, StackSame DEF StackInv
<1>3. CASE u = t
  <2>1. /\ depth'[t] = depth[t] + 1 /\ entering'[t] = f /\ open'[t] = Append(open[t], f)
        /\ f # Nil
    BY <1>1, NilAssumption DEF StackInv, TracerTypes
  <2>2. /\ ThreadStack(t) /\ depth[t] \in Int /\ open[t] \in Seq(Recorded)
        /\ Len(open[t]) \in Nat /\ MaxDepth \in Nat
    BY ThreadFacts
  <2>3. Len(open'[t]) = Len(open[t]) + 1 /\ open'[t][Len(open[t]) + 1] = f /\ open'[t] # <<>>
        /\ \A i \in 1 .. Len(open[t]) : open'[t][i] = open[t][i]
    BY <2>1, <2>2
  <2>4. WrittenFrames(t)' = Len(open[t]) /\ WrittenFrames(t) = Len(open[t])
    BY <1>1, <2>1, <2>2, <2>3 DEF WrittenFrames
  <2> QED
    BY <1>1, <1>3, <2>1, <2>2, <2>3, <2>4 DEF ThreadStack
<1> QED
  BY <1>2, <1>3

LEMMA StackOfWrite ==
    ASSUME StackInv, NEW t \in Threads, Tracer!WriteFrame(t), NEW u \in Threads
    PROVE  ThreadStack(u)'
<1>1. /\ entering[t] # Nil
      /\ frames' = [frames EXCEPT ![t][depth[t] - 1] = entering[t]]
      /\ entering' = [entering EXCEPT ![t] = Nil]
      /\ UNCHANGED <<depth, dump, open, kept, balanced>>
  BY DEF Tracer!WriteFrame
<1>2. CASE u # t
  <2>1. entering'[u] = entering[u] /\ frames'[u] = frames[u]
    BY <1>1, <1>2 DEF StackInv, TracerTypes
  <2> QED
    BY <1>1, <2>1, StackSame DEF StackInv
<1>3. CASE u = t
  <2>1. /\ ThreadStack(t) /\ depth[t] \in Int /\ open[t] \in Seq(Recorded) /\ kept[t] \in Int
        /\ Len(open[t]) \in Nat /\ (open[t] # <<>> => Len(open[t]) > 0) /\ MaxDepth \in Nat
        /\ frames[t] \in [0 .. MaxDepth - 1 -> Recorded \cup {Nil}]
    BY ThreadFacts
  <2>2. entering'[t] = Nil /\ frames'[t] = [frames[t] EXCEPT ![depth[t] - 1] = entering[t]]
    BY <1>1 DEF StackInv, TracerTypes
  <2>3. ASSUME balanced[t]
        PROVE  /\ WrittenFrames(t)' = Len(open[t]) /\ WrittenFrames(t) = Len(open[t]) - 1
               /\ \A i \in 1 .. Len(open[t]) : frames'[t][i - 1] = open[t][i]
    <3>1. /\ depth[t] = Len(open[t]) /\ entering[t] = open[t][Len(open[t])]
          /\ Len(open[t]) <= MaxDepth - 1 /\ Len(open[t]) > 0
          /\ \A i \in 1 .. Len(open[t]) - 1 : frames[t][i - 1] = open[t][i]
      BY <1>1, <2>1, <2>3 DEF ThreadStack, WrittenFrames
    <3>2. WrittenFrames(t)' = Len(open[t]) /\ WrittenFrames(t) = Len(open[t]) - 1
      BY <1>1, <2>2 DEF WrittenFrames
    <3>3. ASSUME NEW i \in 1 .. Len(open[t]) PROVE frames'[t][i - 1] = open[t][i]
      <4> DEFINE n == Len(open[t])
      <4>1. n - 1 \in 0 .. MaxDepth - 1
        BY <2>1, <3>1
      <4>2. CASE i = n
        BY <2>1, <2>2, <3>1, <4>1, <4>2
      <4>3. CASE i # n
        <5>1. i \in 1 .. n - 1 /\ i - 1 # n - 1 /\ i - 1 \in 0 .. MaxDepth - 1
          BY <2>1, <3>1, <4>3
        <5>2. frames'[t][i - 1] = frames[t][i - 1]
          BY <2>1, <2>2, <3>1, <5>1
        <5> QED
          BY <3>1, <5>1, <5>2
      <4> QED
        BY <4>2, <4>3
    <3> QED
      BY <3>2, <3>3
  <2> QED
    BY <1>1, <1>3, <2>1, <2>2, <2>3 DEF ThreadStack
<1> QED
  BY <1>2, <1>3

\* What Leave makes of the stack of its thread.
LEMMA LeaveFacts ==
    ASSUME StackInv, NEW t \in Threads, Tracer!Leave(t)
    PROVE  /\ entering[t] = Nil /\ Len(open[t]) > 0
           /\ depth'[t] = depth[t] - 1 /\ Len(open'[t]) = Len(open[t]) - 1
           /\ \A i \in 1 .. Len(open[t]) - 1 : open'[t][i] = open[t][i]
           /\ kept'[t] \in Int /\ kept'[t] <= kept[t]
           /\ dump.pc # "no" => kept'[t] <= depth[t] - 1
           /\ \A u \in Threads : u # t => depth'[u] = depth[u] /\ open'[u] = open[u] /\ kept'[u] = kept[u]
           /\ UNCHANGED <<frames, entering, dump, balanced>>
<1>1. /\ entering[t] = Nil /\ open[t] # <<>>
      /\ depth' = [depth EXCEPT ![t] = depth[t] - 1]
      /\ open' = [open EXCEPT ![t] = Tracer!Front(open[t])]
      /\ UNCHANGED <<frames, entering, dump, balanced>>
  BY DEF Tracer!Leave
<1>2. kept' = IF dump.pc = "no" THEN kept
              ELSE [kept EXCEPT ![t] = Tracer!Min({kept[t], depth[t] - 1})]
  BY DEF Tracer!Leave
<1>3. /\ depth[t] \in Int /\ kept[t] \in Int /\ open[t] \in Seq(Recorded)
      /\ Len(open[t]) \in Nat /\ Len(open[t]) > 0
  BY <1>1, ThreadFacts
<1>4. open'[t] = Tracer!Front(open[t]) /\ depth'[t] = depth[t] - 1
      /\ \A u \in Threads : u # t => depth'[u] = depth[u] /\ open'[u] = open[u]
  BY <1>1 DEF StackInv, TracerTypes
<1>5. Len(Tracer!Front(open[t])) = Len(open[t]) - 1
      /\ \A i \in 1 .. Len(open[t]) - 1 : Tracer!Front(open[t])[i] = open[t][i]
  BY <1>3 DEF Tracer!Front
<1>6. /\ Tracer!Min({kept[t], depth[t] - 1}) \in {kept[t], depth[t] - 1}
      /\ Tracer!Min({kept[t], depth[t] - 1}) <= kept[t]
      /\ Tracer!Min({kept[t], depth[t] - 1}) <= depth[t] - 1
  <2>1. kept[t] \in Int /\ depth[t] - 1 \in Int
    BY <1>3
  <2> QED
    BY <2>1, MinOfTwo, Zenon
<1>7. /\ kept'[t] = IF dump.pc = "no" THEN kept[t] ELSE Tracer!Min({kept[t], depth[t] - 1})
      /\ \A u \in Threads : u # t => kept'[u] = kept[u]
  BY <1>2 DEF StackInv, TracerTypes
<1> QED
  BY <1>1, <1>3, <1>4, <1>5, <1>6, <1>7

LEMMA StackOfLeave ==
    ASSUME StackInv, NEW t \in Threads, Tracer!Leave(t), NEW u \in Threads
    PROVE  ThreadStack(u)'
<1>1. CASE u # t
  BY <1>1, LeaveFacts, StackSame DEF StackInv
<1>2. CASE u = t
  <2>1. /\ ThreadStack(t) /\ depth[t] \in Int /\ kept[t] \in Int
        /\ Len(open[t]) \in Nat /\ MaxDepth \in Nat
    BY ThreadFacts
  <2>2. WrittenFrames(t)' = Len(open[t]) - 1 /\ WrittenFrames(t) = Len(open[t])
    BY LeaveFacts DEF WrittenFrames
  <2>3. /\ entering[t] = Nil /\ entering' = entering /\ frames' = frames /\ dump' = dump
        /\ balanced' = balanced
        /\ depth'[t] = depth[t] - 1 /\ Len(open'[t]) = Len(open[t]) - 1
        /\ kept'[t] \in Int /\ (dump.pc # "no" => kept'[t] <= depth[t] - 1)
    BY LeaveFacts
  <2>4. \A i \in 1 .. Len(open[t]) - 1 : open'[t][i] = open[t][i] /\ i \in 1 .. Len(open[t])
    BY <2>1, LeaveFacts
  <2>5. CASE balanced[t]
    <3>1. /\ depth[t] = Len(open[t]) /\ Len(open[t]) <= MaxDepth - 1
          /\ \A i \in 1 .. Len(open[t]) : frames[t][i - 1] = open[t][i]
      BY <2>1, <2>2, <2>5 DEF ThreadStack
    <3>2. \A i \in 1 .. Len(open[t]) - 1 : frames'[t][i - 1] = open'[t][i]
      BY <2>3, <2>4, <3>1
    <3> QED
      BY <1>2, <2>1, <2>2, <2>3, <3>1, <3>2 DEF ThreadStack
  <2>6. CASE ~balanced[t]
    BY <1>2, <2>3, <2>6 DEF ThreadStack
  <2> QED
    BY <2>5, <2>6
<1> QED
  BY <1>1, <1>2

LEMMA StackOfDump ==
    ASSUME StackInv, Tracer!GetStackFrameArray, NEW u \in Threads
    PROVE  ThreadStack(u)'
<1>0. /\ ThreadStack(u) /\ depth[u] \in Int /\ kept[u] \in Int /\ Len(open[u]) \in Nat
      /\ (open[u] # <<>> => Len(open[u]) > 0)
  BY ThreadFacts
<1>1. UNCHANGED <<frames, depth, entering, open, balanced>>
  BY DEF Tracer!GetStackFrameArray, Tracer!BeginDump, Tracer!ReadDepth, Tracer!CopyFrame,
         Tracer!NextStack, Tracer!EndDump, Tracer!arrays
<1>2. CASE Tracer!BeginDump
  <2>1. kept'[u] = IF entering[u] = Nil THEN depth[u] ELSE depth[u] - 1
    BY <1>2 DEF Tracer!BeginDump
  <2> QED
    BY <1>0, <1>1, <2>1 DEF ThreadStack, WrittenFrames
<1>3. CASE Tracer!ReadDepth \/ Tracer!CopyFrame \/ Tracer!EndDump
  <2>1. dump.pc # "no" /\ kept' = kept
    BY <1>3 DEF Tracer!ReadDepth, Tracer!CopyFrame, Tracer!EndDump
  <2> QED
    BY <1>0, <1>1, <2>1, StackSame
<1>4. CASE Tracer!NextStack
  <2>1. dump.pc # "no" /\ (kept'[u] = kept[u] \/ kept'[u] = 0)
    BY <1>4 DEF Tracer!NextStack, StackInv, TracerTypes
  <2> QED
    BY <1>0, <1>1, <2>1 DEF ThreadStack, WrittenFrames
<1> QED
  BY <1>2, <1>3, <1>4 DEF Tracer!GetStackFrameArray

LEMMA StackKept == StackInv /\ TracerStep => \A u \in Threads : ThreadStack(u)'
<1> SUFFICES ASSUME StackInv, TracerStep, NEW u \in Threads PROVE ThreadStack(u)'
  OBVIOUS
<1>1. ASSUME NEW t \in Threads, Tracer!RegisterThread(t) \/ Tracer!EndThread(t) PROVE ThreadStack(u)'
  BY <1>1, StackSame DEF Tracer!RegisterThread, Tracer!EndThread, Tracer!arrays, StackInv
<1>2. ASSUME NEW t \in Threads, NEW f \in Recorded, Tracer!EnterTooDeep(t, f) PROVE ThreadStack(u)'
  <2>1. /\ open' = [open EXCEPT ![t] = Append(open[t], f)]
        /\ balanced' = [balanced EXCEPT ![t] = FALSE]
        /\ UNCHANGED <<frames, depth, entering, dump, kept>>
    BY <1>2 DEF Tracer!EnterTooDeep
  <2>2. CASE u = t
    <3>1. balanced'[u] = FALSE
      BY <2>1, <2>2 DEF StackInv, TracerTypes
    <3> QED
      BY <3>1 DEF ThreadStack
  <2>3. CASE u # t
    <3>1. open'[u] = open[u] /\ balanced'[u] = balanced[u]
      BY <2>1, <2>3 DEF StackInv, TracerTypes
    <3> QED
      BY <2>1, <3>1, StackSame DEF StackInv
  <2> QED
    BY <2>2, <2>3
<1>3. CASE UNCHANGED tracer
  BY <1>3, StackSame DEF tracer, StackInv
<1> QED
  BY <1>1, <1>2, <1>3, StackOfEnter, StackOfWrite, StackOfLeave, StackOfDump, WorkersAreThreads, Zenon
  DEF TracerStep

\* The copy stays right as long as the thread keeps what was copied.
LEMMA CopySame ==
    ASSUME CopyInv, dump' = dump, TracerTypes, TracerTypes',
           dump.pc = "copy" /\ balanced'[dump.of] =>
               /\ balanced[dump.of] /\ kept'[dump.of] <= kept[dump.of]
               /\ \A i \in 1 .. Len(dump.stack) :
                      i <= kept'[dump.of] => open'[dump.of][i] = open[dump.of][i]
    PROVE  CopyInv'
<1>1. CASE dump.pc = "copy" /\ balanced'[dump.of]
  <2> DEFINE t == dump.of
  <2>1. /\ t \in Threads /\ kept[t] \in Int /\ kept'[t] \in Int /\ dump.limit \in Int
        /\ Len(dump.stack) \in Nat /\ kept'[t] <= kept[t] /\ kept[t] <= dump.limit
    BY <1>1 DEF CopyInv, TracerTypes
  <2>2. ASSUME NEW i \in 1 .. Len(dump.stack), i <= kept'[t] PROVE dump.stack[i] = open'[t][i]
    BY <1>1, <2>1, <2>2 DEF CopyInv
  <2> QED
    BY <1>1, <2>1, <2>2 DEF CopyInv
<1>2. CASE ~(dump.pc = "copy" /\ balanced'[dump.of])
  BY <1>2 DEF CopyInv
<1> QED
  BY <1>1, <1>2

LEMMA CopyOfThread ==
    ASSUME StackInv, TracerTypes', NEW t \in Threads,
           \/ Tracer!RegisterThread(t) \/ Tracer!WriteFrame(t) \/ Tracer!EndThread(t)
           \/ Tracer!Leave(t)
           \/ \E f \in Recorded : Tracer!Enter(t, f) \/ Tracer!EnterTooDeep(t, f)
    PROVE  CopyInv'
<1>0. CopyInv /\ TracerTypes
  BY DEF StackInv
<1>1. ASSUME dump.pc = "copy", balanced[dump.of]
      PROVE  /\ dump.of \in Threads /\ kept[dump.of] <= Len(open[dump.of])
             /\ kept[dump.of] \in Int /\ Len(open[dump.of]) \in Nat
  <2>1. dump.of \in Threads
    BY <1>0, <1>1 DEF CopyInv
  <2>2. ThreadStack(dump.of) /\ kept[dump.of] \in Int /\ Len(open[dump.of]) \in Nat
    BY <2>1, ThreadFacts
  <2> QED
    BY <1>1, <2>1, <2>2 DEF ThreadStack, WrittenFrames
<1>2. CASE Tracer!RegisterThread(t) \/ Tracer!WriteFrame(t) \/ Tracer!EndThread(t)
  <2>1. UNCHANGED <<dump, balanced, open, kept>>
    BY <1>2 DEF Tracer!RegisterThread, Tracer!WriteFrame, Tracer!EndThread, Tracer!arrays
  <2> QED
    BY <1>0, <1>1, <2>1, CopySame
<1>3. ASSUME NEW f \in Recorded, Tracer!Enter(t, f) PROVE CopyInv'
  <2>1. UNCHANGED <<dump, balanced, kept>> /\ open' = [open EXCEPT ![t] = Append(open[t], f)]
    BY <1>3 DEF Tracer!Enter
  <2>2. ASSUME dump.pc = "copy", balanced'[dump.of], NEW i \in 1 .. Len(dump.stack),
               i <= kept'[dump.of]
        PROVE  open'[dump.of][i] = open[dump.of][i]
    <3>1. dump.of \in Threads /\ i \in 1 .. Len(open[dump.of]) /\ open[dump.of] \in Seq(Recorded)
      BY <1>0, <1>1, <2>1, <2>2 DEF TracerTypes
    <3>2. open'[dump.of] = open[dump.of] \/ open'[dump.of] = Append(open[dump.of], f)
      BY <1>0, <2>1, <3>1 DEF TracerTypes
    <3> QED
      BY <3>1, <3>2
  <2> QED
    BY <1>0, <1>1, <2>1, <2>2, CopySame
<1>4. ASSUME NEW f \in Recorded, Tracer!EnterTooDeep(t, f) PROVE CopyInv'
  <2>1. /\ UNCHANGED <<dump, kept>> /\ open' = [open EXCEPT ![t] = Append(open[t], f)]
        /\ balanced' = [balanced EXCEPT ![t] = FALSE]
    BY <1>4 DEF Tracer!EnterTooDeep
  <2>2. ASSUME dump.pc = "copy", balanced'[dump.of]
        PROVE  balanced[dump.of] /\ open'[dump.of] = open[dump.of]
    BY <1>0, <2>1, <2>2 DEF CopyInv, TracerTypes
  <2> QED
    BY <1>0, <1>1, <2>1, <2>2, CopySame
<1>5. CASE Tracer!Leave(t)
  <2>1. dump' = dump /\ balanced' = balanced
    BY <1>5, LeaveFacts
  <2>2. ASSUME dump.pc = "copy", balanced'[dump.of]
        PROVE  /\ kept'[dump.of] <= kept[dump.of]
               /\ \A i \in 1 .. Len(dump.stack) :
                      i <= kept'[dump.of] => open'[dump.of][i] = open[dump.of][i]
    <3>1. CASE dump.of # t
      BY <1>1, <1>5, <2>1, <2>2, <3>1, LeaveFacts
    <3>2. CASE dump.of = t
      <4>1. /\ kept'[t] \in Int /\ kept'[t] <= kept[t] /\ kept'[t] <= depth[t] - 1
            /\ depth[t] = Len(open[t]) /\ Len(open[t]) \in Nat /\ Len(dump.stack) \in Nat
        BY <1>0, <1>5, <2>1, <2>2, <3>2, LeaveFacts, ThreadFacts DEF ThreadStack, TracerTypes
      <4>2. \A i \in 1 .. Len(open[t]) - 1 : open'[t][i] = open[t][i]
        BY <1>5, LeaveFacts
      <4> QED
        BY <3>2, <4>1, <4>2
    <3> QED
      BY <3>1, <3>2
  <2> QED
    BY <1>0, <2>1, <2>2, CopySame
<1> QED
  BY <1>2, <1>3, <1>4, <1>5

LEMMA CopyOfDump ==
    ASSUME StackInv, TracerTypes', Tracer!GetStackFrameArray
    PROVE  CopyInv'
<1>1. CASE Tracer!BeginDump
  BY <1>1 DEF Tracer!BeginDump, Tracer!NoDump, CopyInv
<1>2. CASE Tracer!ReadDepth
  <2>1. dump.pc = "depth" /\ dump.stack = <<>> /\ UNCHANGED <<depth, open, kept, balanced>>
    BY <1>2 DEF Tracer!ReadDepth, Tracer!arrays, StackInv, CopyInv
  <2> DEFINE t == CHOOSE t \in dump.todo : TRUE
  <2>2. t \in Threads
    BY <1>2 DEF Tracer!ReadDepth, StackInv, TracerTypes
  <2>3. \/ dump' = [dump EXCEPT !.pc = "copy", !.of = t, !.limit = depth[t]]
        \/ dump' = [dump EXCEPT !.pc = "failed"]
    BY <1>2 DEF Tracer!ReadDepth
  <2> HIDE DEF t
  <2>4. \/ dump'.pc = "failed"
        \/ dump'.pc = "copy" /\ dump'.of = t /\ dump'.limit = depth[t] /\ dump'.stack = <<>>
    BY <2>1, <2>3 DEF StackInv, TracerTypes
  <2>5. depth[t] <= MaxDepth - 1 /\ (balanced[t] => kept[t] <= depth[t])
    <3>1. /\ ThreadStack(t) /\ kept[t] \in Int /\ depth[t] \in Int /\ Len(open[t]) \in Nat
          /\ depth[t] <= MaxDepth - 1
      BY <2>2, ThreadFacts DEF StackInv, DepthBound
    <3> QED
      BY <2>1, <3>1 DEF ThreadStack, WrittenFrames
  <2> QED
    BY <2>1, <2>2, <2>4, <2>5 DEF CopyInv
<1>3. CASE Tracer!CopyFrame
  <2> DEFINE t == dump.of
             n == Len(dump.stack)
  <2>1. /\ dump.pc = "copy" /\ UNCHANGED <<open, kept, balanced>>
        /\ dump' = [dump EXCEPT !.stack = Append(dump.stack, frames[t][n])]
    BY <1>3 DEF Tracer!CopyFrame, Tracer!arrays
  <2>2. t \in Threads /\ dump.stack \in Seq(Recorded \cup {Nil}) /\ n \in Nat /\ dump.limit \in Int
    BY <2>1 DEF StackInv, CopyInv, TracerTypes
  <2>3. /\ dump'.pc = "copy" /\ dump'.of = t /\ dump'.limit = dump.limit
        /\ dump'.stack = Append(dump.stack, frames[t][n])
    BY <2>1 DEF StackInv, TracerTypes
  <2>4. /\ ThreadStack(t) /\ kept[t] \in Int /\ Len(open[t]) \in Nat
    BY <2>2, ThreadFacts
  <2>5. ASSUME balanced[t], NEW i \in 1 .. n + 1, i <= kept[t]
        PROVE  Append(dump.stack, frames[t][n])[i] = open[t][i]
    <3>1. CASE i = n + 1
      <4>1. i \in 1 .. WrittenFrames(t)
        BY <2>1, <2>2, <2>4, <2>5, <3>1 DEF ThreadStack, WrittenFrames
      <4>2. frames[t][i - 1] = open[t][i]
        BY <2>4, <2>5, <4>1 DEF ThreadStack
      <4> QED
        BY <2>2, <3>1, <4>2
    <3>2. CASE i # n + 1
      <4>1. i \in 1 .. Len(dump.stack)
        BY <2>2, <3>2
      <4>2. dump.stack[i] = open[t][i]
        BY <2>1, <2>5, <4>1 DEF StackInv, CopyInv
      <4> QED
        BY <2>2, <4>1, <4>2
    <3> QED
      BY <3>1, <3>2
  <2>6. Len(Append(dump.stack, frames[t][n])) = n + 1
    BY <2>2
  <2>7. dump.limit <= MaxDepth - 1 /\ (balanced[t] => kept[t] <= dump.limit)
    BY <2>1 DEF StackInv, CopyInv
  <2> QED
    BY <2>1, <2>2, <2>3, <2>5, <2>6, <2>7 DEF CopyInv
<1>4. CASE Tracer!NextStack
  BY <1>4 DEF Tracer!NextStack, Tracer!NoDump, CopyInv
<1>5. CASE Tracer!EndDump
  BY <1>5 DEF Tracer!EndDump, CopyInv, StackInv, TracerTypes
<1> QED
  BY <1>1, <1>2, <1>3, <1>4, <1>5 DEF Tracer!GetStackFrameArray

LEMMA TracerKept == StackInv /\ TracerStep => StackInv'
<1> SUFFICES ASSUME StackInv, TracerStep PROVE StackInv'
  OBVIOUS
<1>1. TracerTypes' /\ DepthBound' /\ \A t \in Threads : ThreadStack(t)'
  BY TypesKept, DepthKept, StackKept
<1>2. CopyInv'
  <2>1. CASE UNCHANGED tracer
    BY <2>1 DEF tracer, StackInv, CopyInv
  <2>2. CASE ~UNCHANGED tracer
    BY <1>1, <2>2, CopyOfThread, CopyOfDump, WorkersAreThreads DEF TracerStep
  <2> QED
    BY <2>1, <2>2
<1> QED
  BY <1>1, <1>2 DEF StackInv

-----------------------------------------------------------------------------
(* The process                                                             *)

ProcessInv == StackInv /\ ConfigInv /\ ManagerInv /\ ControlOK

LEMMA InvHolds == Spec => []ProcessInv
<1>1. Init => ProcessInv
  <2>1. Init => ControlOK
    BY DEF Init, ControlOK
  <2> QED
    BY <2>1, TracerInit, ConfigInit, ManagerInit DEF ProcessInv
<1>2. ProcessInv /\ [Next]_vars => ProcessInv'
  <2> SUFFICES ASSUME ProcessInv, [Next]_vars PROVE ProcessInv'
    OBVIOUS
  <2>1. TracerStep /\ ConfigStep /\ ManagerStep /\ ControlOK'
    BY StepsOfTracer, StepsOfConfig, StepsOfManager, ControlStep DEF ProcessInv
  <2> QED
    BY <2>1, TracerKept, EndedGrows, ConfigKept, ManagerKept DEF ProcessInv
<1> QED
  BY <1>1, <1>2, PTL DEF Spec

\* Every thread that registers gets an index that no other has: count is above all
\* that were given, and it goes up with each.
THEOREM IndicesApart == Spec => []IndicesDiffer
<1>1. ProcessInv => IndicesDiffer
  <2> SUFFICES ASSUME ProcessInv PROVE IndicesDiffer
    OBVIOUS
  <2>1. TypeOK
    BY DEF ProcessInv, StackInv, TracerTypes, ConfigInv, ManagerInv, ControlOK, TypeOK
  <2>2. \A t, u \in Threads : info[t] # Nil /\ info[t] = info[u] => t = u
    BY DEF ProcessInv, ManagerInv
  <2> QED
    BY <2>1, <2>2 DEF IndicesDiffer
<1> QED
  BY <1>1, InvHolds, PTL

\* A crash report has the functions that a thread is in throughout the copy, for any
\* depth and any number of threads, although frames are written and read without a
\* lock.
THEOREM StackCovered == Spec => []DumpCoversStack
<1>1. ProcessInv => DumpCoversStack
  <2> SUFFICES ASSUME StackInv, dump.pc = "copy", balanced[dump.of]
               PROVE  /\ \A i \in 1 .. Tracer!Min({kept[dump.of], Len(dump.stack)}) :
                             dump.stack[i] = open[dump.of][i]
                      /\ Len(dump.stack) > dump.limit => Len(dump.stack) >= kept[dump.of]
    BY DEF ProcessInv, DumpCoversStack, Tracer!DumpCoversStack
  <2> DEFINE k == kept[dump.of]
             n == Len(dump.stack)
  <2>1. k \in Int /\ n \in Int /\ n >= 0 /\ dump.limit \in Int /\ k <= dump.limit
    BY DEF StackInv, TracerTypes, CopyInv
  <2>2. \A i \in 1 .. n : i <= k => dump.stack[i] = open[dump.of][i]
    BY DEF StackInv, CopyInv
  <2>3. /\ Tracer!Min({k, n}) \in {k, n} /\ Tracer!Min({k, n}) <= k
        /\ Tracer!Min({k, n}) <= n
    BY <2>1, MinOfTwo, Zenon
  <2> HIDE DEF k, n
  <2>4. \A i \in 1 .. Tracer!Min({k, n}) : i \in 1 .. n /\ i <= k
    BY <2>1, <2>3
  <2>5. \A i \in 1 .. Tracer!Min({k, n}) : dump.stack[i] = open[dump.of][i]
    BY <2>2, <2>4
  <2>6. n > dump.limit => n >= k
    BY <2>1
  <2> QED
    BY <2>5, <2>6 DEF k, n
<1> QED
  BY <1>1, InvHolds, PTL

\* What an option was answered with is what the cache holds, from the first answer on.
THEOREM OneValue == Spec => []KeyHasOneValue
<1>1. ProcessInv => KeyHasOneValue
  <2> SUFFICES ASSUME ConfigInv, NEW k \in Keys PROVE Cardinality(answers[k]) <= 1
    <3>1. \A j \in Keys : Config!Cardinality(answers[j]) = Cardinality(answers[j])
      BY DEF Config!Cardinality, Cardinality
    <3> QED
      BY <3>1 DEF ProcessInv, KeyHasOneValue, Config!KeyHasOneValue
  <2>1. CASE answers[k] = {}
    <3>1. Cardinality(answers[k]) = 0
      BY <2>1, FS_EmptySet
    <3> QED
      BY <3>1
  <2>2. CASE answers[k] = {cache[k]}
    <3>1. Cardinality(answers[k]) = 1
      BY <2>2, FS_Singleton
    <3> QED
      BY <3>1
  <2> QED
    BY <2>1, <2>2 DEF ConfigInv
<1> QED
  BY <1>1, InvHolds, PTL

\* ReleaseManagers does not return once a thread was created: Finalize joins every
\* thread of the pool, and WaitForAllThread joined it before.
THEOREM NeverReleased == Spec => []ReleaseDoesNotReturn
<1>1. Init => ReleaseDoesNotReturn
  BY DEF Init, ReleaseDoesNotReturn
<1>2. ReleaseDoesNotReturn /\ [Next]_vars => ReleaseDoesNotReturn'
  <2> SUFFICES ASSUME ReleaseDoesNotReturn, [Next]_vars PROVE ReleaseDoesNotReturn'
    OBVIOUS
  <2>1. CASE Run
    BY <2>1 DEF Run, BeginRun, RunTask, EndRun, ReleaseDoesNotReturn
  <2>2. CASE WaitForAllThread
    BY <2>2 DEF WaitForAllThread, Manager!Join, ReleaseDoesNotReturn
  <2>3. CASE Finalize
    BY <2>3 DEF Finalize, Manager!JoinsAgain, manager, ReleaseDoesNotReturn
  <2>4. CASE EditFile \/ Written(Main) \/ UnhandledHandler
    BY <2>4 DEF EditFile, Written, UnhandledHandler, MakeMinidump, ReportCallStack, MakeReportFile,
                manager, ReleaseDoesNotReturn
  <2>5. ASSUME NEW t \in Workers, ThreadTask(t) \/ Fault(t) PROVE main' = main /\ pool' = pool
    BY <2>5 DEF ThreadTask, Fault, RegisterStack, Begin, Written, Register, Call, CallTooDeep, Return,
                GetInt, GoOn, Throw, Unwind, Catch, End, manager, Manager!LockInfo, Manager!InsertInfo
  <2>6. CASE UNCHANGED vars
    BY <2>6 DEF vars, manager, ReleaseDoesNotReturn
  <2> QED
    BY <2>1, <2>2, <2>3, <2>4, <2>5, <2>6 DEF Next, ReleaseManagers, ReleaseDoesNotReturn
<1> QED
  BY <1>1, <1>2, PTL DEF Spec
=============================================================================
