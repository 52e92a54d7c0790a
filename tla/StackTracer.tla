---------------------------- MODULE StackTracer -----------------------------
(***************************************************************************)
(* StackTracer (StackTracer.cpp): RECORD_STACK keeps the functions a       *)
(* thread is in, in thread-local arrays, and GetStackFrameArray copies     *)
(* them from another thread.  A thread registers its arrays under          *)
(* WRITE_LOCK and the copy is made under READ_LOCK, but the frames are     *)
(* written and read without either.                                        *)
(*                                                                         *)
(* gStackDepth is unsigned: a depth below zero stands for 2^32 minus it.   *)
(***************************************************************************)
EXTENDS Integers, Sequences, SequencesExt, FiniteSets, FiniteSetsExt

CONSTANTS Threads,      \* threads of the process, fewer than MAX_STACK_CHECK_THREAD_NUM
          MaxDepth,     \* MAX_CALL_STACK_DEPTH
          Nil

VARIABLES number,       \* _threadNumbers[t], 0 if t has no entry
          lastThreadId, \* _lastThreadId
          frames,       \* gStackFrames of each thread, by depth
          depth,        \* gStackDepth of each thread
          entering,     \* the frame a thread has counted and not written
          ended,        \* threads that ended: their arrays are freed
          dump,         \* the copy: [pc, todo, of, limit, stack]
          open,         \* history: functions a thread is in, outermost first
          kept,         \* history: frames of a thread open since the copy began
          balanced      \* history: the thread never met its maximal depth

vars == <<number, lastThreadId, frames, depth, entering, ended, dump, open, kept, balanced>>

\* The thread's arrays, its own.
arrays == <<frames, depth, entering, open, balanced>>

NoDump == [pc |-> "no", todo |-> {}, of |-> Nil, limit |-> 0, stack |-> <<>>]

\* The thread `first` is registered.
Init(first) ==
    /\ number = [t \in Threads |-> IF t = first THEN 1 ELSE 0] /\ lastThreadId = 1
    /\ frames = [t \in Threads |-> [i \in 0 .. MaxDepth - 1 |-> Nil]]
    /\ depth = [t \in Threads |-> 0]
    /\ entering = [t \in Threads |-> Nil]
    /\ ended = {}
    /\ dump = NoDump
    /\ open = [t \in Threads |-> <<>>]
    /\ kept = [t \in Threads |-> 0]
    /\ balanced = [t \in Threads |-> TRUE]

-----------------------------------------------------------------------------
(* InStackTrace and OutStackTrace                                          *)

\* The first RECORD_STACK of a thread; the copy's READ_LOCK keeps it out.
RegisterThread(t) ==
    /\ number[t] = 0 /\ dump.pc \notin {"depth", "copy"}
    /\ lastThreadId' = lastThreadId + 1
    /\ number' = [number EXCEPT ![t] = lastThreadId + 1]
    /\ UNCHANGED <<arrays, ended, dump, kept>>

Enter(t, f) ==
    /\ number[t] # 0 /\ entering[t] = Nil
    /\ depth[t] \in 0 .. MaxDepth - 2
    /\ depth' = [depth EXCEPT ![t] = @ + 1]
    /\ entering' = [entering EXCEPT ![t] = f]
    /\ open' = [open EXCEPT ![t] = Append(@, f)]
    /\ UNCHANGED <<number, lastThreadId, frames, ended, dump, kept, balanced>>

\* Mutant: the frame goes above the one that was counted.
WriteFrameAbove(t) ==
    /\ entering[t] # Nil
    /\ frames' = [frames EXCEPT ![t][depth[t]] = entering[t]]
    /\ entering' = [entering EXCEPT ![t] = Nil]
    /\ UNCHANGED <<number, lastThreadId, depth, ended, dump, open, kept, balanced>>

WriteFrame(t) ==
    /\ entering[t] # Nil
    /\ frames' = [frames EXCEPT ![t][depth[t] - 1] = entering[t]]
    /\ entering' = [entering EXCEPT ![t] = Nil]
    /\ UNCHANGED <<number, lastThreadId, depth, ended, dump, open, kept, balanced>>

\* LOG_CRITICAL and return: the frame is not counted, its end will be.
EnterTooDeep(t, f) ==
    /\ entering[t] = Nil /\ depth[t] = MaxDepth - 1
    /\ open' = [open EXCEPT ![t] = Append(@, f)]
    /\ balanced' = [balanced EXCEPT ![t] = FALSE]
    /\ UNCHANGED <<number, lastThreadId, frames, depth, entering, ended, dump, kept>>

Leave(t) ==
    /\ entering[t] = Nil /\ open[t] # <<>>
    /\ depth' = [depth EXCEPT ![t] = @ - 1]
    /\ open' = [open EXCEPT ![t] = Front(@)]
    /\ kept' = IF dump.pc = "no" THEN kept ELSE [kept EXCEPT ![t] = Min({@, depth[t] - 1})]
    /\ UNCHANGED <<number, lastThreadId, frames, entering, ended, dump, balanced>>

\* The thread returns; its entry stays, and the memory it points to is freed.
EndThread(t) ==
    /\ open[t] = <<>>
    /\ ended' = ended \cup {t}
    /\ UNCHANGED <<number, lastThreadId, arrays, dump, kept>>

-----------------------------------------------------------------------------
(* GetStackFrameArray                                                      *)

\* READ_LOCK, and the loop over _threadNumbers.
BeginDump ==
    /\ dump.pc = "no"
    /\ dump' = [NoDump EXCEPT !.pc = "depth", !.todo = {t \in Threads : number[t] # 0}]
    /\ kept' = [t \in Threads |-> IF entering[t] = Nil THEN depth[t] ELSE depth[t] - 1]
    /\ UNCHANGED <<number, lastThreadId, arrays, ended>>

\* *(gStackDepths[...]) of the next thread, in the order of the map (of the
\* thread ids, any fixed one); if that thread ended, the read goes to freed
\* memory.
ReadDepth ==
    /\ dump.pc = "depth" /\ dump.todo # {}
    /\ LET t == CHOOSE t \in dump.todo : TRUE IN
       \/ dump' = [dump EXCEPT !.pc = "copy", !.of = t, !.limit = depth[t]]
       \/ t \in ended /\ dump' = [dump EXCEPT !.pc = "failed"]
    /\ UNCHANGED <<number, lastThreadId, arrays, ended, kept>>

\* Mutant: the loop begins behind the outermost frame.
CopyFrameLate ==
    /\ dump.pc = "copy" /\ Len(dump.stack) < dump.limit
    /\ dump' = [dump EXCEPT !.stack = Append(@, frames[dump.of][Len(@) + 1])]
    /\ UNCHANGED <<number, lastThreadId, arrays, ended, kept>>

\* for (int i = 0; i <= depth; i++): one frame more than there are.
CopyFrame ==
    /\ dump.pc = "copy" /\ Len(dump.stack) <= dump.limit
    /\ dump' = [dump EXCEPT !.stack = Append(@, frames[dump.of][Len(@)])]
    /\ UNCHANGED <<number, lastThreadId, arrays, ended, kept>>

\* The copy goes to the report, as the thread that reports is in a function itself
\* (gStackDepth != 0), and is not looked at again.
NextStack ==
    /\ dump.pc = "copy" /\ Len(dump.stack) > dump.limit
    /\ dump' = [NoDump EXCEPT !.pc = "depth", !.todo = dump.todo \ {dump.of}]
    /\ kept' = [kept EXCEPT ![dump.of] = 0]
    /\ UNCHANGED <<number, lastThreadId, arrays, ended>>

EndDump ==
    /\ dump.pc = "depth" /\ dump.todo = {}
    /\ dump' = [dump EXCEPT !.pc = "done"]
    /\ UNCHANGED <<number, lastThreadId, arrays, ended, kept>>

GetStackFrameArray ==
    BeginDump \/ ReadDepth \/ CopyFrame \/ NextStack \/ EndDump

-----------------------------------------------------------------------------
\* The functions a thread is in from before the copy until after it are in the
\* copy, at their places, although the thread calls and returns all the time
\* (StackTracer.cpp:60-64, 86-96); unless it met the maximal depth.
DumpCoversStack ==
    LET t == dump.of IN
    dump.pc = "copy" /\ t \notin ended /\ balanced[t] =>
        /\ \A i \in 1 .. Min({kept[t], Len(dump.stack)}) : dump.stack[i] = open[t][i]
        /\ Len(dump.stack) > dump.limit => Len(dump.stack) >= kept[t]
=============================================================================
