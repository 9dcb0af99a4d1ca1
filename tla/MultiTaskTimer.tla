--------------------------- MODULE MultiTaskTimer ---------------------------
(***************************************************************************)
(* MultiTaskTimer of breUtils/Timer.hpp: any thread adds tasks to a queue  *)
(* ordered by due time; one thread at a time is in Run and executes them.  *)
(* Run reads _tasks.empty() after a callback without the mutex: it sees    *)
(* the queue before or after an Add that is going on.                      *)
(***************************************************************************)
EXTENDS Naturals, FiniteSets

CONSTANTS TaskIds,   \* the calls of Add a behaviour may make
          Delays,    \* their delay arguments
          MaxTime    \* bound: the clock stops here

VARIABLES now,
          added,      \* history: the tasks of the Adds made so far
          tasks,      \* _tasks
          runner,     \* where the thread inside Run is
          deadline,   \* until when it sleeps in wait_until
          current,    \* the task it took out
          began       \* history: the tasks whose callback began, with the time

vars == <<now, added, tasks, runner, deadline, current, began>>

Task == [id : TaskIds, due : 0..(2 * MaxTime)]

TypeOK ==
    /\ now \in 0..MaxTime
    /\ added \subseteq TaskIds
    /\ tasks \subseteq Task
    /\ runner \in {"out", "top", "wait", "waitUntil", "call", "check"}
    /\ deadline \in 0..(2 * MaxTime)
    /\ current \subseteq Task
    /\ began \subseteq [task : Task, at : 0..MaxTime]

Init ==
    /\ now = 0
    /\ added = {}
    /\ tasks = {}
    /\ runner = "out"
    /\ deadline = 0
    /\ current = {}
    /\ began = {}

Tick == /\ now < MaxTime
        /\ now' = now + 1
        /\ UNCHANGED <<added, tasks, runner, deadline, current, began>>

(* The tasks priority_queue may have on top: equal due times in any order. *)
Top == {t \in tasks : \A u \in tasks : t.due <= u.due}

(* Mutant of Notified: only a runner without any task is notified.         *)
NotifiedIfIdle == IF runner = "wait" THEN "top" ELSE runner

(* Mutant of Notified: only a runner with a task to wait for is notified.  *)
NotifiedIfBusy == IF runner = "waitUntil" THEN "top" ELSE runner

(* notify_one reaches the runner if it sleeps: it loops.                   *)
Notified == IF runner \in {"wait", "waitUntil"} THEN "top" ELSE runner

Add(i, delay) ==
    /\ i \notin added
    /\ added' = added \union {i}
    /\ tasks' = tasks \union {[id |-> i, due |-> now + delay]}
    /\ runner' = Notified
    /\ UNCHANGED <<now, deadline, current, began>>

Run == /\ runner = "out"
       /\ runner' = "top"
       /\ UNCHANGED <<now, added, tasks, deadline, current, began>>

(* The top of the loop, under the mutex, in its three branches.            *)
RunIdle ==
    /\ runner = "top"
    /\ tasks = {}
    /\ runner' = "wait"
    /\ UNCHANGED <<now, added, tasks, deadline, current, began>>

Due(t) == t.due <= now

RunTake(t) ==
    /\ runner = "top"
    /\ t \in Top
    /\ Due(t)
    /\ tasks' = tasks \ {t}
    /\ current' = {t}
    /\ runner' = "call"
    /\ UNCHANGED <<now, added, deadline, began>>

RunSleep(t) ==
    /\ runner = "top"
    /\ t \in Top
    /\ ~Due(t)
    /\ deadline' = t.due
    /\ runner' = "waitUntil"
    /\ UNCHANGED <<now, added, tasks, current, began>>

Wakeup ==
    /\ \/ runner = "waitUntil" /\ now >= deadline
       \/ runner \in {"wait", "waitUntil"}           \* spurious
    /\ runner' = "top"
    /\ UNCHANGED <<now, added, tasks, deadline, current, began>>

TimesUp == runner = "waitUntil" /\ now >= deadline /\ Wakeup

RunCallback ==
    /\ runner = "call"
    /\ began' = began \union {[task |-> t, at |-> now] : t \in current}
    /\ current' = {}
    /\ runner' = "check"
    /\ UNCHANGED <<now, added, tasks, deadline>>

RunCheck ==
    /\ runner = "check"
    /\ runner' = IF tasks = {} THEN "out" ELSE "top"
    /\ UNCHANGED <<now, added, tasks, deadline, current, began>>

Next ==
    \/ Tick
    \/ \E i \in TaskIds, d \in Delays : Add(i, d)
    \/ Run \/ RunIdle \/ Wakeup \/ RunCallback \/ RunCheck
    \/ \E t \in tasks : RunTake(t) \/ RunSleep(t)

Spec == Init /\ [][Next]_vars

(* The thread in Run runs, callbacks return, and the clock goes on.        *)
Fairness ==
    /\ WF_vars(Tick)
    /\ WF_vars(RunIdle) /\ WF_vars(TimesUp) /\ WF_vars(RunCallback)
    /\ WF_vars(RunCheck)
    /\ WF_vars(\E t \in tasks : RunTake(t) \/ RunSleep(t))

FairSpec == Spec /\ Fairness

-----------------------------------------------------------------------------
(* The runner never oversleeps (Timer.hpp:129, 144, 148): while it sleeps  *)
(* no task is due before the time it set itself, and it sleeps without a   *)
(* time only if there is no task - whatever was added meanwhile.           *)
NoOversleep ==
    /\ TypeOK
    /\ runner = "wait" => tasks = {}
    /\ runner = "waitUntil" => \A t \in tasks : t.due >= deadline

(* No callback begins before its task is due, and each begins once.        *)
NeverEarlyNorTwice ==
    /\ \A b \in began : b.at >= b.task.due
    /\ \A b, c \in began : b.task.id = c.task.id => b = c

(* Both: the runner is on time, and a task has its callback once           *)
(* (Timer.hpp:122-160).                                                    *)
OnTimeAndOnce == NoOversleep /\ NeverEarlyNorTwice

(* Every task added is taken out in the end, unless Run has returned.      *)
TasksAreServed ==
    \A i \in TaskIds :
        (\E t \in tasks : t.id = i /\ t.due <= MaxTime)
            ~> (runner = "out" \/ \A t \in tasks : t.id # i)
=============================================================================
