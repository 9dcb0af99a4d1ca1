------------------------------- MODULE Timer -------------------------------
(***************************************************************************)
(* Timer of breUtils/Timer.hpp: AsyncWait starts a thread that sleeps on a *)
(* condition variable for the interval and then runs the callback outside  *)
(* the mutex; Cancel and the destructor stop it.  Time is abstracted: a    *)
(* sleep may expire at any moment.  AsyncWait is used once per Timer, as   *)
(* every caller in the repository does: a second call would assign over a  *)
(* joinable std::thread, which ends the program.                           *)
(***************************************************************************)
EXTENDS Naturals

CONSTANT MaxCalls   \* bound: callbacks counted, further ones look the same

ASSUME MaxCallsAssumption == MaxCalls \in Nat /\ MaxCalls > 1

VARIABLES m_Stop,
          is_loop,   \* the argument of AsyncWait
          thread,    \* where the thread of AsyncWait is
          owner,     \* what the thread that owns the Timer is doing
          calls,     \* history: callbacks the thread has begun
          late,      \* history: those begun after a Cancel returned
          cancelled  \* history: a Cancel returned since AsyncWait

vars == <<m_Stop, is_loop, thread, owner, calls, late, cancelled>>

ThreadStates == {"none", "while", "lock", "asleep", "notified", "timedOut",
                 "fire", "running", "done"}

TypeOK ==
    /\ m_Stop \in BOOLEAN /\ is_loop \in BOOLEAN /\ cancelled \in BOOLEAN
    /\ thread \in ThreadStates
    /\ owner \in {"idle", "spawn", "wait", "joining", "gone"}
    /\ calls \in 0..MaxCalls
    /\ late \in 0..MaxCalls

Init ==
    /\ m_Stop = TRUE
    /\ is_loop = FALSE
    /\ thread = "none"
    /\ owner = "idle"
    /\ calls = 0
    /\ late = 0
    /\ cancelled = FALSE

Goto(s) == thread' = s

Capped(n) == IF n < MaxCalls THEN n + 1 ELSE n

-----------------------------------------------------------------------------
(* The owner.                                                              *)

(* m_Stop is cleared before the thread exists.                             *)
AsyncWait(l) ==
    /\ owner = "idle"
    /\ thread = "none"
    /\ m_Stop' = FALSE
    /\ is_loop' = l
    /\ cancelled' = FALSE
    /\ owner' = "spawn"
    /\ UNCHANGED <<thread, calls, late>>

AsyncWaitSpawn ==
    /\ owner = "spawn"
    /\ Goto("while")
    /\ owner' = "idle"
    /\ UNCHANGED <<m_Stop, is_loop, calls, late, cancelled>>

(* Wait sleeps and calls its own callback, then sets m_Stop - which an     *)
(* asynchronous task on the same Timer takes for a Cancel nobody notified. *)
WaitStart ==
    /\ owner = "idle"
    /\ owner' = "wait"
    /\ UNCHANGED <<m_Stop, is_loop, thread, calls, late, cancelled>>

WaitEnd ==
    /\ owner = "wait"
    /\ m_Stop' = TRUE
    /\ owner' = "idle"
    /\ UNCHANGED <<is_loop, thread, calls, late, cancelled>>

(* Mutant of StopAndNotify: the sleeping thread is not notified.           *)
StopOnly == m_Stop' = TRUE /\ UNCHANGED thread

(* Mutant of StopAndNotify: the thread is woken, the flag is forgotten.    *)
NotifyOnly == /\ thread' = IF thread = "asleep" THEN "notified" ELSE thread
              /\ UNCHANGED m_Stop

(* The flag and the notification, under the mutex.                         *)
StopAndNotify ==
    /\ m_Stop' = TRUE
    /\ thread' = IF thread = "asleep" THEN "notified" ELSE thread

(* Cancel may come from any thread while the Timer exists.                 *)
Cancel ==
    /\ owner # "gone"
    /\ StopAndNotify
    /\ cancelled' = TRUE
    /\ UNCHANGED <<is_loop, owner, calls, late>>

Destroy ==
    /\ owner = "idle"
    /\ StopAndNotify
    /\ cancelled' = TRUE
    /\ owner' = "joining"
    /\ UNCHANGED <<is_loop, calls, late>>

DestroyJoin ==
    /\ owner = "joining"
    /\ thread \in {"none", "done"}
    /\ owner' = "gone"
    /\ UNCHANGED <<m_Stop, is_loop, thread, calls, late, cancelled>>

-----------------------------------------------------------------------------
(* The thread.  The predicate of wait_until is tested under the mutex      *)
(* before the first sleep, after every wakeup and after the timeout.       *)

Unchanged == UNCHANGED <<m_Stop, is_loop, owner, calls, late, cancelled>>

TestStop == /\ thread = "while"
            /\ Goto(IF m_Stop THEN "done" ELSE "lock")
            /\ Unchanged

Sleep == /\ thread \in {"lock", "notified"}
         /\ Goto(IF m_Stop THEN "done" ELSE "asleep")
         /\ Unchanged

SpuriousWakeup == thread = "asleep" /\ Goto("notified") /\ Unchanged

Expire == thread \in {"asleep", "notified"} /\ Goto("timedOut") /\ Unchanged

(* Mutant of LeaveWait: a timeout starts the wait over.                    *)
LeaveWaitRestarts == /\ thread = "timedOut"
                     /\ Goto(IF m_Stop THEN "done" ELSE "lock")
                     /\ Unchanged

LeaveWait == /\ thread = "timedOut"
             /\ Goto(IF m_Stop THEN "done" ELSE "fire")
             /\ Unchanged

CallbackStart ==
    /\ thread = "fire"
    /\ Goto("running")
    /\ calls' = Capped(calls)
    /\ late' = IF cancelled THEN Capped(late) ELSE late
    /\ UNCHANGED <<m_Stop, is_loop, owner, cancelled>>

CallbackEnd == /\ thread = "running"
               /\ Goto(IF is_loop THEN "while" ELSE "done")
               /\ Unchanged

Next ==
    \/ \E l \in BOOLEAN : AsyncWait(l)
    \/ AsyncWaitSpawn \/ WaitStart \/ WaitEnd
    \/ Cancel \/ Destroy \/ DestroyJoin
    \/ TestStop \/ Sleep \/ SpuriousWakeup \/ Expire \/ LeaveWait
    \/ CallbackStart \/ CallbackEnd

Spec == Init /\ [][Next]_vars

(* The threads run and callbacks return; intervals may be arbitrarily      *)
(* long, so no expiry is promised here.                                    *)
Fairness ==
    /\ WF_vars(AsyncWaitSpawn) /\ WF_vars(DestroyJoin)
    /\ WF_vars(TestStop) /\ WF_vars(Sleep) /\ WF_vars(LeaveWait)
    /\ WF_vars(CallbackStart) /\ WF_vars(CallbackEnd)

FairSpec == Spec /\ Fairness

-----------------------------------------------------------------------------
(* Once Cancel has returned (Timer.hpp:97-101) at most one more callback   *)
(* begins: the one whose wait was over before Cancel took the mutex.       *)
AtMostOneLateCallback == late <= 1

(* The stronger claim the test makes (test_Timer.hpp:48): no callback      *)
(* begins after Cancel returned.                                           *)
NoCallbackAfterCancel == late = 0

(* AsyncWait without is_loop calls back at most once (Timer.hpp:91-93).    *)
OneShotOnce == ~is_loop => calls <= 1

(* No callback of a destroyed Timer is about to run or running: what the   *)
(* callback captured may be destroyed right after the Timer.               *)
NothingRunsAfterDestructor == owner = "gone" => thread \in {"none", "done"}

(* The destructor returns without waiting for the interval to end: Cancel  *)
(* reaches the thread in whatever state it is (Timer.hpp:63-68, 86).       *)
DestructorReturns == (owner = "joining") ~> (owner = "gone")

(* If intervals end - a thread that keeps sleeping expires - a task that   *)
(* nobody stops goes on: its thread comes to run the callback unless       *)
(* m_Stop was set (Timer.hpp:83-94).                                       *)
TaskRuns ==
    WF_vars(Expire)
        => ((thread = "while" /\ ~m_Stop) ~> (thread = "running" \/ m_Stop))
=============================================================================
