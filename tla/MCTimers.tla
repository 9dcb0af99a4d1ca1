------------------------------ MODULE MCTimers ------------------------------
(* What goes by the clock and shares nothing else: a behaviour is one of a *)
(* Timer with its owner, its thread and any number of cancellers, one of a *)
(* MultiTaskTimer with three tasks added at any time, or one of TestTime   *)
(* with three places to hit and one that measures its intervals.           *)
EXTENDS Timer

CONSTANTS TaskIds, Delays, MaxTime,                      \* MultiTaskTimer
          HitPlaces, IntervalPlaces, LastTime, MaxHits   \* TestTime

VARIABLES part,
          now, added, tasks, runner, deadline, current, began,
          time, m_hitMap, m_hitList, m_intevalMap, laps, passed

ASSUME TaskAssumption == MaxTime \in Nat /\ Delays \subseteq 0..MaxTime
ASSUME HitAssumption  == LastTime \in Nat /\ "nowhere" \notin HitPlaces

M == INSTANCE MultiTaskTimer
H == INSTANCE TestTime

timerVars == vars
taskVars  == <<now, added, tasks, runner, deadline, current, began>>
testVars  == <<time, m_hitMap, m_hitList, m_intevalMap, laps, passed>>

MCDelays == 0..2

TimersInit == part \in {"timer", "tasks", "hits"} /\ Init /\ M!Init /\ H!HitInit

TimersNext ==
    /\ UNCHANGED part
    /\ \/ part = "timer" /\ Next /\ UNCHANGED <<taskVars, testVars>>
       \/ part = "tasks" /\ M!Next /\ UNCHANGED <<timerVars, testVars>>
       \/ part = "hits" /\ H!HitNext /\ UNCHANGED <<timerVars, taskVars>>

TimersSpec == TimersInit /\ [][TimersNext]_<<part, timerVars, taskVars, testVars>>

FairTimersSpec ==
    /\ TimersSpec
    /\ part = "timer" => Fairness
    /\ part = "tasks" => M!Fairness

OnTimeAndOnce  == M!OnTimeAndOnce
TasksAreServed == M!TasksAreServed
LapsAddUp      == H!LapsAddUp
=============================================================================
