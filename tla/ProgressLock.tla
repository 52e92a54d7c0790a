---------------------------- MODULE ProgressLock ----------------------------
(***************************************************************************)
(* ProgressLock (ProgressLock.h): Start takes the work if nobody has it,   *)
(* or if the one who has it started longer ago than the timeout; End gives *)
(* it back, whoever has it by then.                                        *)
(*                                                                         *)
(* GetTickCount() - _startTick is kept as the age of _startTick, counted   *)
(* up to the timeout: Start asks nothing else of it.  It starts expired,   *)
(* as _startTick is 0 and the machine was started before.                  *)
(***************************************************************************)
EXTENDS Integers

CONSTANTS Workers,      \* threads that call Start and End
          Timeouts      \* possible values of _timeout: -1 is none

VARIABLES curWork,      \* _curWork: work type of the turn, 0 if none
          timeout,      \* _timeout
          age,          \* ticks since _startTick, at most the timeout
          turn          \* turn[w]: what w is about to do in Start, or "in"

vars == <<curWork, timeout, age, turn>>

Work == 1       \* inWorkType; any number but 0

Init ==
    /\ curWork = 0
    /\ timeout \in Timeouts
    /\ age = timeout
    /\ turn = [w \in Workers |-> "out"]

Goto(w, pc) == turn' = [turn EXCEPT ![w] = pc]

\* The unlocked test of _curWork.
TestWork(w) ==
    /\ turn[w] = "out"
    /\ Goto(w, IF timeout # -1 /\ curWork # 0 THEN "test" ELSE "swap")
    /\ UNCHANGED <<curWork, timeout, age>>

\* Mutant: the timeout is compared with the wrong sign.
TestTimeoutNever(w) ==
    /\ turn[w] = "test"
    /\ Goto(w, IF age < 0 THEN "stamp" ELSE "swap")
    /\ UNCHANGED <<curWork, timeout, age>>

\* The unlocked test of _startTick: a turn that is too old is taken over without
\* the compare-and-swap, whoever has it by now.
TestTimeout(w) ==
    /\ turn[w] = "test"
    /\ Goto(w, IF age >= timeout THEN "stamp" ELSE "swap")
    /\ UNCHANGED <<curWork, timeout, age>>

\* Mutant: _curWork is read and written, not exchanged, after the test.
SwapOver(w) ==
    /\ turn[w] = "swap"
    /\ curWork' = Work
    /\ Goto(w, "stamp")
    /\ UNCHANGED <<timeout, age>>

\* InterlockedCompareExchange(&_curWork, inWorkType, 0); false if it fails.
Swap(w) ==
    /\ turn[w] = "swap"
    /\ Goto(w, IF curWork = 0 THEN "stamp" ELSE "out")
    /\ curWork' = IF curWork = 0 THEN Work ELSE curWork
    /\ UNCHANGED <<timeout, age>>

\* _startTick = GetTickCount().
Stamp(w) ==
    /\ turn[w] = "stamp"
    /\ age' = IF timeout = -1 THEN age ELSE 0
    /\ Goto(w, "in")
    /\ UNCHANGED <<curWork, timeout>>

\* Mutant: End returns without giving the work back.
EndForgotten(w) ==
    /\ turn[w] = "in"
    /\ Goto(w, "out")
    /\ UNCHANGED <<curWork, timeout, age>>

End(w) ==
    /\ turn[w] = "in"
    /\ curWork' = 0
    /\ Goto(w, "out")
    /\ UNCHANGED <<timeout, age>>

\* GetTickCount moves on.
Tick ==
    /\ age < timeout
    /\ age' = age + 1
    /\ UNCHANGED <<curWork, timeout, turn>>

Start(w) == TestWork(w) \/ TestTimeout(w) \/ Swap(w) \/ Stamp(w)

\* Nobody else has a turn.
Exclusive == \A v, w \in Workers : turn[v] = "in" /\ turn[w] = "in" => v = w
=============================================================================
