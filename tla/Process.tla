------------------------------ MODULE Process ------------------------------
(***************************************************************************)
(* A server process from InitializeManagers to ReleaseManagers             *)
(* (InterfaceFunction.cpp), with its IO threads (DokeviServer::Run and     *)
(* ThreadTask) and UnhandledHandler, which reports a crash                 *)
(* (DokeviException.cpp).  The managers are modules of their own.  What an *)
(* IO thread does with a completion is in DokeviServer; here it enters and *)
(* leaves functions that RECORD_STACK records, asks for options, throws,   *)
(* or faults.                                                              *)
(***************************************************************************)
EXTENDS Integers, Sequences, SequencesExt, FiniteSets

CONSTANTS Main,         \* the thread that runs main()
          Workers,      \* the IO threads
          Askers,       \* IO threads whose handlers ask for options
          Faulters,     \* IO threads that may be the first to fault
          MaxDepth,     \* MAX_CALL_STACK_DEPTH
          MaxNest,      \* bound on the recorded functions a thread is in
          Keys,         \* options an application asks for
          Nil

Threads == {Main} \cup Workers

\* The functions that record themselves, as far as they are told apart.
Recorded == {"Run", "ThreadTask", "RegisterThread", "Handler", "Nested"}

ASSUME ThreadsAssumption == IsFiniteSet(Workers) /\ Main \notin Workers
ASSUME NilAssumption == Nil \notin Threads /\ Nil \notin Recorded /\ Nil \notin {0, 1} /\ Nil \notin Keys
ASSUME WorkersAssumption == Askers \subseteq Workers /\ Faulters \subseteq Workers
ASSUME BoundsAssumption == MaxDepth \in Nat \ {0, 1} /\ MaxNest \in Nat

VARIABLES number, lastThreadId, frames, depth, entering, ended, dump, open, kept, balanced
VARIABLES file, cache, getting, inside, answers
VARIABLES pool, joined, count, size, info, mutex
VARIABLES main,         \* what main() is about to do
          task,         \* task[t]: what ThreadTask is about to do
          logs,         \* LogManager writes logs
          faulty,       \* the thread that runs UnhandledHandler, or Nil
          report,       \* what UnhandledHandler is about to do
          dead          \* the process has ended

Tracer == INSTANCE StackTracer
Config == INSTANCE ConfigManager
Manager == INSTANCE ThreadManager

tracer == <<number, lastThreadId, frames, depth, entering, ended, dump, open, kept, balanced>>
config == <<file, cache, getting, inside, answers>>
manager == <<pool, joined, count, size, info, mutex>>
crash == <<faulty, report, dead>>
vars == <<tracer, config, manager, main, task, logs, crash>>

\* After InitializeManagers, which read UseLog (logs are written if it is 0) and
\* UseMiniDump (taken to be set: UnhandledHandler is installed), and
\* DokeviServer::Init, whose RECORD_STACK registered the main thread: there is no
\* second thread before Run.
Init ==
    /\ Tracer!Init(Main) /\ Config!Init /\ Manager!Init
    /\ main = "run"
    /\ task = [t \in Workers |-> "new"]
    /\ logs \in BOOLEAN
    /\ faulty = Nil /\ report = "no" /\ dead = FALSE

-----------------------------------------------------------------------------
(* main(): Run, ReleaseManagers                                            *)

\* Run(n): one TaskRun for each IO thread, n at most the number of Workers.
\* (TaskRun records itself too; the nesting is left to the IO threads.)
RunTask ==
    /\ ~dead /\ main = "running" /\ entering[Main] = Nil
    /\ \E t \in Workers :
        /\ Manager!TaskRun(t)
        /\ task' = [task EXCEPT ![t] = "start"]
    /\ UNCHANGED <<tracer, config, main, logs, crash>>

BeginRun ==
    /\ ~dead /\ main = "run"
    /\ Tracer!Enter(Main, "Run")
    /\ main' = "running"
    /\ UNCHANGED <<config, manager, task, logs, crash>>

EndRun ==
    /\ ~dead /\ main = "running" /\ Tracer!Leave(Main)
    /\ main' = "loop"
    /\ UNCHANGED <<config, manager, task, logs, crash>>

\* The game loop of main ends some time; then it calls ReleaseManagers.
WaitForAllThread ==
    /\ ~dead /\ main = "loop"
    /\ \/ Manager!Join(ended) /\ UNCHANGED main
       \/ Manager!AllJoined /\ main' = "finalize" /\ UNCHANGED manager
    /\ UNCHANGED <<tracer, config, task, logs, crash>>

\* Finalize joins a second time: the exception that leaves main ends the process.
Finalize ==
    /\ ~dead /\ main = "finalize"
    /\ IF Manager!JoinsAgain THEN dead' = TRUE /\ UNCHANGED main
       ELSE main' = "released" /\ UNCHANGED dead
    /\ UNCHANGED <<tracer, config, manager, task, logs, faulty, report>>

-----------------------------------------------------------------------------
(* ThreadTask                                                              *)

\* Thread t runs: it did not fault, and it is not inside a call of a manager.
Runs(t) == ~dead /\ faulty # t /\ entering[t] = Nil /\ getting[t].pc = "no"

At(t, pc) == Runs(t) /\ task[t] = pc

\* UnhandledHandler begins on t.  The first fault only: the others of a process
\* that is ending are not followed.
FirstFault(t) ==
    /\ faulty = Nil /\ t \in Faulters
    /\ faulty' = t
    /\ UNCHANGED <<report, dead>>

Goto(t, pc) == task' = [task EXCEPT ![t] = pc]

\* RECORD_STACK: the tracer knows the thread, or gets to know it.
RegisterStack(t) ==
    /\ At(t, "start")
    /\ Tracer!RegisterThread(t)
    /\ UNCHANGED <<config, manager, main, task, logs, crash>>

Enter(t, f) == Tracer!Enter(t, f) /\ UNCHANGED crash

\* The frame that a thread counted is written.
Written(t) ==
    /\ ~dead /\ Tracer!WriteFrame(t)
    /\ UNCHANGED <<config, manager, main, task, logs, crash>>

Begin(t) ==
    /\ At(t, "start")
    /\ Enter(t, "ThreadTask")
    /\ Goto(t, "register")
    /\ UNCHANGED <<config, manager, main, logs>>

\* ThreadManager::RegisterThread, which records itself.
Register(t) ==
    /\ UNCHANGED <<config, main, logs>>
    /\ \/ /\ At(t, "register") /\ Enter(t, "RegisterThread")
          /\ Goto(t, "lock") /\ UNCHANGED manager
       \/ /\ At(t, "lock") /\ Manager!LockInfo(t)
          /\ Goto(t, "insert") /\ UNCHANGED <<tracer, crash>>
       \/ /\ At(t, "insert") /\ Manager!InsertInfo(t)
          /\ Goto(t, "registered") /\ UNCHANGED <<tracer, crash>>
       \/ /\ At(t, "registered") /\ Tracer!Leave(t)
          /\ Goto(t, "serve") /\ UNCHANGED <<manager, crash>>

\* A completion, and the recorded functions that handle it.
Call(t) ==
    /\ At(t, "serve") /\ Len(open[t]) < MaxNest
    /\ Enter(t, IF Len(open[t]) = 1 THEN "Handler" ELSE "Nested")
    /\ UNCHANGED <<config, manager, main, task, logs>>

\* One function too many: LOG_CRITICAL faults if there is a log.  Bound: once in the
\* process.
CallTooDeep(t) ==
    /\ At(t, "serve") /\ Len(open[t]) < MaxNest /\ \A u \in Workers : balanced[u]
    /\ Tracer!EnterTooDeep(t, "Nested")
    /\ IF logs THEN FirstFault(t) ELSE UNCHANGED crash
    /\ UNCHANGED <<config, manager, main, task, logs>>

Return(t) ==
    /\ At(t, "serve") /\ Len(open[t]) > 1
    /\ Tracer!Leave(t)
    /\ UNCHANGED <<config, manager, main, task, logs, crash>>

GetInt(t) ==
    /\ t \in Askers /\ At(t, "serve") /\ Len(open[t]) = 2
    /\ \E k \in Keys : Config!Get(t, k)
    /\ UNCHANGED <<tracer, manager, main, task, logs, crash>>

GoOn(t) ==
    /\ ~dead /\ Config!GoOn(t)
    /\ UNCHANGED <<tracer, manager, main, task, logs, crash>>

\* The handler throws: the frames are left one by one on the way to ThreadTask.
Throw(t) ==
    /\ At(t, "serve") /\ Len(open[t]) > 1
    /\ Goto(t, "unwind")
    /\ UNCHANGED <<tracer, config, manager, main, logs, crash>>

Unwind(t) ==
    /\ At(t, "unwind") /\ Len(open[t]) > 1
    /\ Tracer!Leave(t)
    /\ UNCHANGED <<config, manager, main, task, logs, crash>>

\* catch (...): LOG_CRITICAL faults if there is a log, else ThreadTask returns.
Catch(t) ==
    /\ At(t, "unwind") /\ Len(open[t]) = 1
    /\ IF logs
       THEN FirstFault(t) /\ UNCHANGED <<tracer, task>>
       ELSE /\ Tracer!Leave(t) /\ Goto(t, "end") /\ UNCHANGED crash
    /\ UNCHANGED <<config, manager, main, logs>>

End(t) ==
    /\ At(t, "end") /\ Tracer!EndThread(t)
    /\ Goto(t, "ended")
    /\ UNCHANGED <<config, manager, main, logs, crash>>

ThreadTask(t) ==
    \/ RegisterStack(t) \/ Begin(t) \/ Written(t) \/ Register(t)
    \/ Call(t) \/ CallTooDeep(t) \/ Return(t) \/ GetInt(t) \/ GoOn(t)
    \/ Throw(t) \/ Unwind(t) \/ Catch(t) \/ End(t)

-----------------------------------------------------------------------------
(* UnhandledHandler, on the thread that faulted                            *)

Fault(t) ==
    /\ At(t, "serve") /\ Len(open[t]) > 1
    /\ FirstFault(t)
    /\ UNCHANGED <<tracer, config, manager, main, task, logs>>

\* MakeMinidump asks for FullDump.
MakeMinidump ==
    /\ UNCHANGED <<tracer, manager, main, task, logs, faulty, dead>>
    /\ ~dead /\ faulty # Nil
    /\ \/ /\ report = "no"
          /\ \E k \in Keys : Config!Get(faulty, k)
          /\ report' = "minidump"
       \/ /\ report = "minidump" /\ getting[faulty].pc = "no"
          /\ report' = "stacks" /\ UNCHANGED config

\* A read of freed memory faults inside the handler: no report.
ReportCallStack ==
    /\ UNCHANGED <<config, manager, main, task, logs, faulty>>
    /\ ~dead /\ report = "stacks"
    /\ \/ /\ Tracer!GetStackFrameArray
          /\ dead' = (dump'.pc = "failed") /\ UNCHANGED report
       \/ /\ dump.pc = "done"
          /\ report' = "file" /\ UNCHANGED <<tracer, dead>>

\* ReportLockStack adds nothing, as no thread is registered there, and the READ
\* lock it stays in keeps nobody out.
MakeReportFile ==
    /\ ~dead /\ report = "file"
    /\ report' = "written" /\ dead' = TRUE
    /\ UNCHANGED <<tracer, config, manager, main, task, logs, faulty>>

UnhandledHandler == MakeMinidump \/ ReportCallStack \/ MakeReportFile

-----------------------------------------------------------------------------
\* The ini file is edited while the process serves.
EditFile ==
    /\ ~dead /\ faulty = Nil
    /\ \E k \in Keys : Config!Edit(k)
    /\ UNCHANGED <<tracer, manager, main, task, logs, crash>>

Run == BeginRun \/ RunTask \/ EndRun

ReleaseManagers == WaitForAllThread \/ Finalize

Next ==
    \/ Run \/ ReleaseManagers \/ UnhandledHandler \/ EditFile
    \/ \E t \in Workers : ThreadTask(t) \/ Fault(t)
    \/ Written(Main)

Spec == Init /\ [][Next]_vars

\* A thread inside a call of a manager goes on, and so does UnhandledHandler; a
\* thread that waits for a lock that is free again and again gets it.
Fairness ==
    /\ \A t \in Workers : WF_vars(GoOn(t)) /\ SF_vars(GoOn(t) /\ faulty = t)
    /\ WF_vars(UnhandledHandler)

FairSpec == Spec /\ Fairness

\* main ends its loop and calls ReleaseManagers, which runs as soon as it can.
ReleaseSpec == Spec /\ WF_vars(ReleaseManagers)

-----------------------------------------------------------------------------
(* Properties                                                              *)

TypeOK ==
    /\ number \in [Threads -> Nat] /\ lastThreadId \in Nat
    /\ frames \in [Threads -> [0 .. MaxDepth - 1 -> Recorded \cup {Nil}]]
    /\ depth \in [Threads -> Int] /\ entering \in [Threads -> Recorded \cup {Nil}]
    /\ open \in [Threads -> Seq(Recorded)] /\ kept \in [Threads -> Int]
    /\ ended \subseteq Workers /\ balanced \in [Threads -> BOOLEAN]
    /\ dump \in [pc : {"no", "depth", "copy", "done", "failed"}, todo : SUBSET Threads,
                 of : Threads \cup {Nil}, limit : Int, stack : Seq(Recorded \cup {Nil})]
    /\ file \in [Keys -> Config!Values] /\ cache \in [Keys -> Config!Values \cup {Nil}]
    /\ getting \in [Threads -> [pc : {"no", "lock", "read", "answer"}, key : Keys \cup {Nil}]]
    /\ inside \in Threads \cup {Nil} /\ answers \in [Keys -> SUBSET Config!Values]
    /\ pool \in Seq(Workers) /\ joined \subseteq ended
    /\ count \in Nat /\ size \in Nat /\ mutex \in Workers \cup {Nil}
    /\ info \in [Threads -> Nat \cup {Nil}]
    /\ main \in {"run", "running", "loop", "finalize", "released"}
    /\ task \in [Workers -> {"new", "start", "register", "lock", "insert", "registered", "serve",
                             "unwind", "end", "ended"}]
    /\ faulty \in Workers \cup {Nil} /\ dead \in BOOLEAN /\ logs \in BOOLEAN
    /\ report \in {"no", "minidump", "stacks", "file", "written"}

\* Every thread has an index of its own, the main thread 0, as long as threads
\* register one at a time; the types are kept.
IndicesDiffer ==
    /\ TypeOK
    /\ \A t, u \in Threads : info[t] # Nil /\ info[t] = info[u] => t = u

\* The functions a thread is in throughout a crash report are in the report, at
\* their places, although the thread goes on calling and returning
\* (StackTracer.cpp:60-64, 86-96); unless it met the maximal depth or ended.
DumpCoversStack == Tracer!DumpCoversStack

\* An option has one value as long as the process lives, whoever asks for it and
\* whatever becomes of the file.
KeyHasOneValue == Config!KeyHasOneValue

\* A fault is reported, if no IO thread ended before: its
\* entry in _threadNumbers would outlive its stack.
ReportMade == faulty # Nil ~> (report = "written" \/ ended # {})

\* ReleaseManagers does not return once there is an IO thread: it waits for
\* threads that serve for ever, or joins ended ones twice and ends the process
\* (ThreadManager.cpp:26-47); LogManager and ConfigManager are never released.
ReleaseDoesNotReturn == main = "released" => pool = <<>>

\* What src/README.md:91-95 says of ReleaseManagers, "It release the manager's
\* resources": when every IO thread has ended and was joined, it goes on to its end.
\* ThreadManager::Finalize joins them again, and its exception ends the process.
Released == main = "finalize" ~> main = "released"
=============================================================================
