---------------------------- MODULE TimerProofs ----------------------------
(***************************************************************************)
(* Proofs about Timer, MultiTaskTimer (M) and TestTime (H), for any tasks, *)
(* delays and places, and for any end of the clock.                        *)
(***************************************************************************)
EXTENDS MCTimers, SequenceTheorems, TLAPS

-----------------------------------------------------------------------------
(* Timer.                                                                  *)

(* A Cancel that returned left m_Stop set, so a thread that did not pass   *)
(* its last test before it will not pass one again.                        *)
CancelInv ==
    /\ cancelled => m_Stop
    /\ late > 0 => /\ cancelled
                   /\ late = 1
                   /\ thread \in {"running", "while", "done"}
    /\ owner \in {"joining", "gone"} => cancelled

(* How far a task can be that has called back already.                     *)
OneShotInv ==
    /\ thread = "none" => calls = 0
    /\ thread \in {"none", "while", "lock", "asleep", "notified", "timedOut",
                   "fire"} /\ ~is_loop => calls = 0
    /\ OneShotOnce

(* The thread is created by the owner's spawn step only.                   *)
SpawnInv ==
    /\ owner = "spawn" => thread = "none"
    /\ NothingRunsAfterDestructor

IInv == TypeOK /\ CancelInv /\ OneShotInv /\ SpawnInv

LEMMA InitIInv == Init => IInv
<1> SUFFICES ASSUME Init PROVE IInv
  OBVIOUS
<1>1. TypeOK
  <2>1. m_Stop \in BOOLEAN /\ is_loop \in BOOLEAN /\ cancelled \in BOOLEAN
    BY DEF Init
  <2>2. thread \in ThreadStates
    BY DEF Init, ThreadStates
  <2>3. owner \in {"idle", "spawn", "wait", "joining", "gone"}
    BY DEF Init
  <2>4. calls \in 0..MaxCalls
    BY MaxCallsAssumption DEF Init
  <2>5. late \in 0..MaxCalls
    BY MaxCallsAssumption DEF Init
  <2> QED  BY <2>1, <2>2, <2>3, <2>4, <2>5 DEF TypeOK
<1>2. CancelInv
  BY DEF Init, CancelInv
<1>3. OneShotInv
  BY DEF Init, OneShotInv, OneShotOnce
<1>4. SpawnInv
  BY DEF Init, SpawnInv, NothingRunsAfterDestructor
<1> QED
  BY <1>1, <1>2, <1>3, <1>4, MaxCallsAssumption
  DEF Init, IInv, TypeOK, CancelInv, OneShotInv, OneShotOnce, SpawnInv,
      NothingRunsAfterDestructor, ThreadStates

(* Types.                                                                  *)
LEMMA StepTypeOK ==
    ASSUME TypeOK, [Next]_vars
    PROVE  TypeOK'
<1> USE MaxCallsAssumption DEF TypeOK, ThreadStates, Goto, Unchanged
<1>1. ASSUME NEW l \in BOOLEAN, AsyncWait(l)
      PROVE  TypeOK'
  BY <1>1 DEF AsyncWait
<1>2. CASE AsyncWaitSpawn
  BY <1>2 DEF AsyncWaitSpawn
<1>3. CASE WaitStart \/ WaitEnd
  BY <1>3 DEF WaitStart, WaitEnd
<1>4. CASE Cancel \/ Destroy
  BY <1>4 DEF Cancel, Destroy, StopAndNotify
<1>5. CASE DestroyJoin
  BY <1>5 DEF DestroyJoin
<1>6. CASE TestStop \/ Sleep \/ SpuriousWakeup \/ Expire
  BY <1>6 DEF TestStop, Sleep, SpuriousWakeup, Expire
<1>7. CASE LeaveWait
  BY <1>7 DEF LeaveWait
<1>8. CASE CallbackStart
  BY <1>8 DEF CallbackStart, Capped
<1>9. CASE CallbackEnd
  BY <1>9 DEF CallbackEnd
<1>10. CASE UNCHANGED vars
  BY <1>10 DEF vars
<1> QED
  BY <1>1, <1>2, <1>3, <1>4, <1>5, <1>6, <1>7, <1>8, <1>9, <1>10 DEF Next

(* The flag, and the one callback it may come too late for.                *)
LEMMA StepCancelInv ==
    ASSUME TypeOK, CancelInv, SpawnInv, [Next]_vars
    PROVE  CancelInv'
<1> USE DEF CancelInv, SpawnInv, Goto, Unchanged
<1>1. ASSUME NEW l \in BOOLEAN, AsyncWait(l)
      PROVE  CancelInv'
  BY <1>1 DEF AsyncWait
<1>2. CASE AsyncWaitSpawn
  BY <1>2 DEF AsyncWaitSpawn
<1>3. CASE WaitStart \/ WaitEnd
  BY <1>3 DEF WaitStart, WaitEnd
<1>4. CASE Cancel \/ Destroy
  BY <1>4 DEF Cancel, Destroy, StopAndNotify
<1>5. CASE DestroyJoin
  BY <1>5 DEF DestroyJoin
<1>6. CASE TestStop \/ Sleep \/ SpuriousWakeup \/ Expire
  BY <1>6 DEF TestStop, Sleep, SpuriousWakeup, Expire
<1>7. CASE LeaveWait
  BY <1>7 DEF LeaveWait
<1>8. CASE CallbackStart
  <2>1. late = 0
    BY <1>8 DEF CallbackStart, TypeOK
  <2>2. late' \in {0, 1} /\ (late' > 0 => cancelled)
    BY <1>8, <2>1, MaxCallsAssumption DEF CallbackStart, Capped
  <2> QED  BY <1>8, <2>2 DEF CallbackStart
<1>9. CASE CallbackEnd
  BY <1>9 DEF CallbackEnd
<1>10. CASE UNCHANGED vars
  BY <1>10 DEF vars
<1> QED
  BY <1>1, <1>2, <1>3, <1>4, <1>5, <1>6, <1>7, <1>8, <1>9, <1>10 DEF Next

(* How often a one-shot task calls back.                                   *)
LEMMA StepOneShotInv ==
    ASSUME TypeOK, OneShotInv, SpawnInv, [Next]_vars
    PROVE  OneShotInv'
<1> USE DEF OneShotInv, OneShotOnce, SpawnInv, Goto, Unchanged
<1>1. ASSUME NEW l \in BOOLEAN, AsyncWait(l)
      PROVE  OneShotInv'
  BY <1>1 DEF AsyncWait
<1>2. CASE AsyncWaitSpawn
  BY <1>2 DEF AsyncWaitSpawn
<1>3. CASE WaitStart \/ WaitEnd
  BY <1>3 DEF WaitStart, WaitEnd
<1>4. CASE Cancel \/ Destroy
  BY <1>4 DEF Cancel, Destroy, StopAndNotify
<1>5. CASE DestroyJoin
  BY <1>5 DEF DestroyJoin
<1>6. CASE TestStop \/ Sleep \/ SpuriousWakeup \/ Expire
  BY <1>6 DEF TestStop, Sleep, SpuriousWakeup, Expire
<1>7. CASE LeaveWait
  BY <1>7 DEF LeaveWait
<1>8. CASE CallbackStart
  BY <1>8 DEF CallbackStart, Capped
<1>9. CASE CallbackEnd
  BY <1>9 DEF CallbackEnd
<1>10. CASE UNCHANGED vars
  BY <1>10 DEF vars
<1> QED
  BY <1>1, <1>2, <1>3, <1>4, <1>5, <1>6, <1>7, <1>8, <1>9, <1>10 DEF Next

(* The life of the thread.                                                 *)
LEMMA StepSpawnInv ==
    ASSUME SpawnInv, [Next]_vars
    PROVE  SpawnInv'
<1> USE DEF SpawnInv, NothingRunsAfterDestructor, Goto, Unchanged
<1>1. ASSUME NEW l \in BOOLEAN, AsyncWait(l)
      PROVE  SpawnInv'
  BY <1>1 DEF AsyncWait
<1>2. CASE AsyncWaitSpawn
  BY <1>2 DEF AsyncWaitSpawn
<1>3. CASE WaitStart \/ WaitEnd
  BY <1>3 DEF WaitStart, WaitEnd
<1>4. CASE Cancel \/ Destroy
  BY <1>4 DEF Cancel, Destroy, StopAndNotify
<1>5. CASE DestroyJoin
  BY <1>5 DEF DestroyJoin
<1>6. CASE TestStop \/ Sleep \/ SpuriousWakeup \/ Expire
  BY <1>6 DEF TestStop, Sleep, SpuriousWakeup, Expire
<1>7. CASE LeaveWait
  BY <1>7 DEF LeaveWait
<1>8. CASE CallbackStart
  BY <1>8 DEF CallbackStart, Capped
<1>9. CASE CallbackEnd
  BY <1>9 DEF CallbackEnd
<1>10. CASE UNCHANGED vars
  BY <1>10 DEF vars
<1> QED
  BY <1>1, <1>2, <1>3, <1>4, <1>5, <1>6, <1>7, <1>8, <1>9, <1>10 DEF Next

LEMMA StepIInv == IInv /\ [Next]_vars => IInv'
  BY StepTypeOK, StepCancelInv, StepOneShotInv, StepSpawnInv DEF IInv

LEMMA IInvHolds == Spec => []IInv
  BY InitIInv, StepIInv, PTL DEF Spec

(* After Cancel at most one callback begins, however many are counted.     *)
THEOREM OneLateCallback == Spec => []AtMostOneLateCallback
<1>1. IInv => AtMostOneLateCallback
  BY DEF IInv, TypeOK, CancelInv, AtMostOneLateCallback
<1> QED  BY <1>1, IInvHolds, PTL

(* A one-shot task calls back at most once, and no callback outlives the   *)
(* destructor.                                                             *)
THEOREM CallbacksContained ==
    Spec => [](OneShotOnce /\ NothingRunsAfterDestructor)
<1>1. IInv => OneShotOnce /\ NothingRunsAfterDestructor
  BY DEF IInv, OneShotInv, SpawnInv
<1> QED  BY <1>1, IInvHolds, PTL

-----------------------------------------------------------------------------
(* MultiTaskTimer.                                                         *)

(* A task is in one place: waiting, taken out, or begun.                   *)
PlaceInv ==
    /\ \A t \in tasks \union current : t.id \in added
    /\ \A b \in began : b.task.id \in added
    /\ \A t, u \in tasks : t.id = u.id => t = u
    /\ \A t, u \in current : t = u
    /\ \A t \in tasks, u \in current : t.id # u.id
    /\ \A b \in began, t \in tasks \union current : b.task.id # t.id
    /\ \A b, c \in began : b.task.id = c.task.id => b = c

(* What was taken out, and what was begun, was due.                        *)
DueInv ==
    /\ \A t \in current : t.due <= now
    /\ \A b \in began : b.at >= b.task.due

TasksInv == M!NoOversleep /\ PlaceInv /\ DueInv

LEMMA InitTasksInv == M!Init => TasksInv
  BY TaskAssumption
  DEF M!Init, TasksInv, M!NoOversleep, M!TypeOK, M!Task, PlaceInv, DueInv

LEMMA StepNoOversleep == M!NoOversleep /\ [M!Next]_M!vars => M!NoOversleep'
<1> SUFFICES ASSUME M!NoOversleep, [M!Next]_M!vars PROVE M!NoOversleep'
  OBVIOUS
<1> USE TaskAssumption DEF M!NoOversleep, M!TypeOK, M!Task
<1>1. CASE M!Tick
  BY <1>1 DEF M!Tick
<1>2. ASSUME NEW i \in TaskIds, NEW d \in Delays, M!Add(i, d)
      PROVE  M!NoOversleep'
  <2>1. d \in 0..MaxTime /\ now + d \in 0..(2 * MaxTime)
    OBVIOUS
  <2>2. M!Notified \notin {"wait", "waitUntil"}
    BY DEF M!Notified
  <2>3. M!Notified \in {"out", "top", "call", "check"}
    BY DEF M!Notified
  <2> QED  BY <1>2, <2>1, <2>2, <2>3 DEF M!Add
<1>3. CASE M!Run \/ M!RunIdle \/ M!Wakeup \/ M!RunCheck
  BY <1>3 DEF M!Run, M!RunIdle, M!Wakeup, M!RunCheck
<1>4. CASE M!RunCallback
  BY <1>4 DEF M!RunCallback
<1>5. ASSUME NEW t \in tasks, M!RunTake(t)
      PROVE  M!NoOversleep'
  BY <1>5 DEF M!RunTake
<1>6. ASSUME NEW t \in tasks, M!RunSleep(t)
      PROVE  M!NoOversleep'
  BY <1>6 DEF M!RunSleep, M!Top
<1>7. CASE UNCHANGED M!vars
  BY <1>7 DEF M!vars
<1> QED  BY <1>1, <1>2, <1>3, <1>4, <1>5, <1>6, <1>7 DEF M!Next

LEMMA StepPlaceInv ==
    ASSUME M!TypeOK, PlaceInv, DueInv, [M!Next]_M!vars
    PROVE  PlaceInv' /\ DueInv'
<1> USE DEF PlaceInv, DueInv
<1>1. CASE M!Tick
  <2>1. \A t \in current : t.due \in Nat
    BY DEF M!TypeOK, M!Task
  <2> QED  BY <1>1, <2>1 DEF M!Tick, M!TypeOK
<1>2. ASSUME NEW i \in TaskIds, NEW d \in Delays, M!Add(i, d)
      PROVE  PlaceInv' /\ DueInv'
  <2> DEFINE new == [id |-> i, due |-> now + d]
  <2>1. /\ i \notin added /\ added' = added \union {i}
        /\ tasks' = tasks \union {new} /\ UNCHANGED <<now, current, began>>
        /\ new.id = i
    BY <1>2 DEF M!Add
  <2> HIDE DEF new
  <2> QED  BY <2>1
<1>3. CASE M!Run \/ M!RunIdle \/ M!Wakeup \/ M!RunCheck
  BY <1>3 DEF M!Run, M!RunIdle, M!Wakeup, M!RunCheck
<1>4. CASE M!RunCallback
  <2> DEFINE news == {[task |-> t, at |-> now] : t \in current}
  <2>1. /\ began' = began \union news /\ current' = {}
        /\ UNCHANGED <<now, added, tasks>>
    BY <1>4 DEF M!RunCallback
  <2>2. \A b \in news : b.task \in current /\ b.at = now
    OBVIOUS
  <2>3. \A b, c \in news : b = c
    OBVIOUS
  <2>4. /\ \A t \in current : t.due \in Nat
        /\ now \in Nat
    BY DEF M!TypeOK, M!Task
  <2> HIDE DEF news
  <2> QED  BY <2>1, <2>2, <2>3, <2>4
<1>5. ASSUME NEW t \in tasks, M!RunTake(t)
      PROVE  PlaceInv' /\ DueInv'
  <2>1. /\ tasks' = tasks \ {t} /\ current' = {t} /\ t.due <= now
        /\ UNCHANGED <<now, added, began>>
    BY <1>5 DEF M!RunTake, M!Due
  <2> QED  BY <2>1
<1>6. ASSUME NEW t \in tasks, M!RunSleep(t)
      PROVE  PlaceInv' /\ DueInv'
  BY <1>6 DEF M!RunSleep
<1>7. CASE UNCHANGED M!vars
  BY <1>7 DEF M!vars
<1> QED  BY <1>1, <1>2, <1>3, <1>4, <1>5, <1>6, <1>7 DEF M!Next

(* Whatever is added at any moment, the runner does not sleep past a due   *)
(* task, and each task has its callback at most once and not before it is  *)
(* due (Timer.hpp:122-160).                                                *)
THEOREM TasksAreOnTime == M!Spec => []OnTimeAndOnce
<1>1. TasksInv => OnTimeAndOnce
  BY DEF TasksInv, OnTimeAndOnce, M!OnTimeAndOnce, M!NeverEarlyNorTwice, PlaceInv, DueInv
<1>2. TasksInv /\ [M!Next]_M!vars => TasksInv'
  BY StepNoOversleep, StepPlaceInv DEF TasksInv, M!NoOversleep
<1> QED  BY <1>1, <1>2, InitTasksInv, PTL DEF M!Spec

-----------------------------------------------------------------------------
(* TestTime.                                                               *)

(* Each place that was hit is in the list once.                            *)
ListInv ==
    /\ m_hitList \in Seq(HitPlaces)
    /\ \A k, l \in DOMAIN m_hitList : m_hitList[k] = m_hitList[l] => k = l

LapInv ==
    /\ laps \in [latest : HitPlaces \union {"nowhere"}, begin : Int, sum : Int]
    /\ laps.latest \in HitPlaces =>
          /\ m_hitMap[laps.latest] # <<>>
          /\ laps.begin + laps.sum = H!Last(m_hitMap[laps.latest])

IntervalInv ==
    /\ passed \in [IntervalPlaces -> [first : Int, sum : Int]]
    /\ \A p \in IntervalPlaces : m_intevalMap[p] # <<>> =>
          passed[p].first + passed[p].sum = Head(m_intevalMap[p])

HitsInv == H!HitTypeOK /\ ListInv /\ LapInv /\ IntervalInv

LEMMA InitHitsInv == H!HitInit => HitsInv
<1> SUFFICES ASSUME H!HitInit PROVE HitsInv
  OBVIOUS
<1> USE HitAssumption, EmptySeq DEF H!HitInit
<1>1. H!HitTypeOK
  BY DEF H!HitTypeOK, H!ToSet
<1>2. ListInv /\ LapInv
  BY DEF ListInv, LapInv, H!OutOfOrder
<1>3. IntervalInv
  BY DEF IntervalInv
<1> QED  BY <1>1, <1>2, <1>3 DEF HitsInv

(* The place of an element in a list without doubles.                      *)
LEMMA IndexOf ==
    ASSUME NEW S, NEW list \in Seq(S), NEW p, NEW k \in 1..Len(list), list[k] = p,
           \A i, j \in DOMAIN list : list[i] = list[j] => i = j
    PROVE  H!SelectInSeq(list, LAMBDA q : q = p) = k
<1>1. {i \in 1..Len(list) : list[i] = p} = {k}
  BY LenProperties
<1>2. H!Min({k}) = k
  BY DEF H!Min
<1> QED  BY <1>1, <1>2 DEF H!SelectInSeq

LEMMA LastAppended ==
    ASSUME NEW S, NEW s \in Seq(S), NEW e \in S
    PROVE  /\ Append(s, e) \in Seq(S) /\ Append(s, e) # <<>>
           /\ H!Last(Append(s, e)) = e
<1>1. Append(s, e) \in Seq(S) /\ Len(Append(s, e)) = Len(s) + 1 /\ Len(s) \in Nat
  BY AppendProperties, LenProperties
<1>2. Append(s, e)[Len(s) + 1] = e
  BY AppendProperties
<1> QED  BY <1>1, <1>2, EmptySeq DEF H!Last

LEMMA LastIn ==
    ASSUME NEW S, NEW s \in Seq(S), s # <<>>
    PROVE  H!Last(s) \in S
<1>1. Len(s) \in 1..Len(s)
  BY EmptySeq, LenProperties
<1> QED  BY <1>1, ElementOfSeq DEF H!Last

(* What a hit makes of the map and the list.                               *)
LEMMA HitRecords ==
    ASSUME HitsInv, NEW p \in HitPlaces, H!Hit(p)
    PROVE  /\ m_hitMap' \in [HitPlaces -> Seq(0..LastTime)]
           /\ m_hitMap'[p] # <<>> /\ H!Last(m_hitMap'[p]) = time
           /\ \A q \in HitPlaces \ {p} : m_hitMap'[q] = m_hitMap[q]
           /\ ListInv'
           /\ H!ToSet(m_hitList') = H!ToSet(m_hitList) \union {p}
<1>1. /\ m_hitMap' = [m_hitMap EXCEPT ![p] = Append(@, time)]
      /\ m_hitList' = IF m_hitMap[p] = <<>> THEN Append(m_hitList, p) ELSE m_hitList
  BY DEF H!Hit
<1>2. /\ m_hitMap \in [HitPlaces -> Seq(0..LastTime)] /\ time \in 0..LastTime
      /\ H!ToSet(m_hitList) = {q \in HitPlaces : m_hitMap[q] # <<>>}
  BY DEF HitsInv, H!HitTypeOK
<1>3. /\ m_hitMap[p] \in Seq(0..LastTime)
      /\ m_hitMap'[p] = Append(m_hitMap[p], time)
      /\ \A q \in HitPlaces \ {p} : m_hitMap'[q] = m_hitMap[q]
  BY <1>1, <1>2
<1>4. /\ m_hitMap'[p] \in Seq(0..LastTime) /\ m_hitMap'[p] # <<>>
      /\ H!Last(m_hitMap'[p]) = time
  <2> DEFINE Times == 0..LastTime
             s == m_hitMap[p]
  <2>1. s \in Seq(Times) /\ m_hitMap'[p] = Append(s, time) /\ time \in Times
    BY <1>2, <1>3
  <2> HIDE DEF s, Times
  <2>2. /\ Append(s, time) \in Seq(Times) /\ Append(s, time) # <<>>
        /\ H!Last(Append(s, time)) = time
    BY <2>1, LastAppended
  <2> QED  BY <2>1, <2>2 DEF Times
<1>5. m_hitMap' \in [HitPlaces -> Seq(0..LastTime)]
  BY <1>1, <1>2, <1>4
<1>6. ListInv' /\ H!ToSet(m_hitList') = H!ToSet(m_hitList) \union {p}
  <2>0. ListInv /\ m_hitList \in Seq(HitPlaces) /\ Len(m_hitList) \in Nat
        /\ DOMAIN m_hitList = 1..Len(m_hitList)
    BY LenProperties DEF HitsInv, ListInv
  <2>1. CASE m_hitMap[p] = <<>>
    <3>1. m_hitList' = Append(m_hitList, p) /\ p \notin H!ToSet(m_hitList)
      BY <1>1, <1>2, <2>1
    <3>2. /\ m_hitList' \in Seq(HitPlaces) /\ Len(m_hitList') = Len(m_hitList) + 1
          /\ DOMAIN m_hitList' = 1..(Len(m_hitList) + 1)
          /\ \A i \in 1..Len(m_hitList) : m_hitList'[i] = m_hitList[i]
          /\ m_hitList'[Len(m_hitList) + 1] = p
      BY <2>0, <3>1, AppendProperties, LenProperties
    <3>3. \A i \in 1..Len(m_hitList) : m_hitList[i] # p
      BY <2>0, <3>1 DEF H!ToSet
    <3>4. \A i, j \in DOMAIN m_hitList' : m_hitList'[i] = m_hitList'[j] => i = j
      BY <2>0, <3>2, <3>3 DEF ListInv
    <3>5. H!ToSet(m_hitList') = H!ToSet(m_hitList) \union {p}
      BY <2>0, <3>2 DEF H!ToSet
    <3> QED  BY <3>2, <3>4, <3>5 DEF ListInv
  <2>2. CASE m_hitMap[p] # <<>>
    BY <1>1, <1>2, <2>0, <2>2 DEF ListInv
  <2> QED  BY <2>1, <2>2
<1> QED  BY <1>3, <1>4, <1>5, <1>6

(* A hit is compared with another place that was hit, and Told goes by the *)
(* same one: the laps go on at the time they had come to.                  *)
LEMMA HitAddsUp ==
    ASSUME HitsInv, NEW p \in HitPlaces, H!Hit(p)
    PROVE  LapInv'
<1> DEFINE list == m_hitList'
           spend == H!Last(m_hitMap'[p]) - H!Last(m_hitMap'[H!Before(list, p)])
<1>1. laps' = H!Told(list, m_hitMap', p, spend)
  BY DEF H!Hit
<1>2. /\ m_hitMap' \in [HitPlaces -> Seq(0..LastTime)]
      /\ m_hitMap'[p] # <<>> /\ H!Last(m_hitMap'[p]) = time
      /\ \A q \in HitPlaces \ {p} : m_hitMap'[q] = m_hitMap[q]
      /\ ListInv' /\ p \in H!ToSet(list)
  BY HitRecords
<1>3. list \in Seq(HitPlaces) /\ DOMAIN list = 1..Len(list) /\ Len(list) \in Nat
      /\ \A i, j \in DOMAIN list : list[i] = list[j] => i = j
  BY <1>2, LenProperties DEF ListInv
<1>4. PICK k \in 1..Len(list) : list[k] = p
  BY <1>2, <1>3 DEF H!ToSet
<1>5. H!SelectInSeq(list, LAMBDA q : q = p) = k
  BY <1>3, <1>4, IndexOf DEF H!SelectInSeq
<1>6. time \in Int /\ laps.begin \in Int /\ laps.sum \in Int /\ LapInv
  BY HitAssumption DEF HitsInv, H!HitTypeOK, LapInv
<1>7. CASE Len(list) < 2
  <2>1. laps' = H!Laps(p, time, 0)
    BY <1>1, <1>7 DEF H!Told
  <2> QED  BY <1>2, <1>6, <2>1 DEF H!Laps, LapInv
<1>8. CASE ~(Len(list) < 2)
  <2> DEFINE j == IF k = 1 THEN Len(list) ELSE k - 1
             q == list[j]
  <2>1. j \in 1..Len(list) /\ j # k
    <3>1. Len(list) \in Nat /\ ~(Len(list) < 2) /\ k \in 1..Len(list)
      BY <1>3, <1>8
    <3> HIDE DEF list
    <3> QED  BY <3>1
  <2>2. q \in HitPlaces /\ q # p
    BY <1>3, <1>4, <2>1, ElementOfSeq
  <2>3. H!Before(list, p) = q
    BY <1>5 DEF H!Before
  <2>4. (p = list[1]) <=> (k = 1)
    BY <1>3, <1>4
  <2>5. \/ q = laps.latest /\ laps' = H!Laps(p, laps.begin, laps.sum + spend)
        \/ laps' = H!OutOfOrder
    BY <1>1, <1>5, <1>8, <2>4 DEF H!Told
  <2>6. CASE laps' = H!OutOfOrder
    BY <2>5, <2>6, HitAssumption DEF H!OutOfOrder, LapInv
  <2>7. CASE q = laps.latest /\ laps' = H!Laps(p, laps.begin, laps.sum + spend)
    <3>1. /\ m_hitMap[q] # <<>> /\ m_hitMap'[q] = m_hitMap[q]
          /\ laps.begin + laps.sum = H!Last(m_hitMap[q])
      BY <1>2, <1>6, <2>2, <2>7 DEF LapInv
    <3>2. H!Last(m_hitMap[q]) \in Int
      <4>1. m_hitMap'[q] \in Seq(0..LastTime)
        BY <1>2, <2>2
      <4>2. H!Last(m_hitMap'[q]) \in 0..LastTime
        BY <3>1, <4>1, LastIn
      <4> QED  BY <3>1, <4>2, HitAssumption
    <3>3. spend = time - H!Last(m_hitMap[q])
      BY <1>2, <2>3, <3>1
    <3> HIDE DEF spend, q, list
    <3>4. /\ laps'.latest = p /\ laps'.begin = laps.begin
          /\ laps'.sum = laps.sum + spend
          /\ laps' \in [latest : HitPlaces \union {"nowhere"}, begin : Int, sum : Int]
      BY <1>6, <2>7, <3>2, <3>3 DEF H!Laps
    <3> QED  BY <1>2, <1>6, <3>1, <3>2, <3>3, <3>4 DEF LapInv
  <2> QED  BY <2>5, <2>6, <2>7
<1> QED  BY <1>7, <1>8

LEMMA StepHitsInv == HitsInv /\ [H!HitNext]_H!testVars => HitsInv'
<1> SUFFICES ASSUME HitsInv, [H!HitNext]_H!testVars PROVE HitsInv'
  OBVIOUS
<1> USE DEF HitsInv
<1>1. ASSUME NEW p \in HitPlaces, H!Hit(p)
      PROVE  HitsInv'
  <2>1. UNCHANGED <<time, m_intevalMap, passed>>
    BY <1>1 DEF H!Hit
  <2>2. H!HitTypeOK'
    <3>1. H!ToSet(m_hitList') = {q \in HitPlaces : m_hitMap'[q] # <<>>}
      BY <1>1, HitRecords DEF H!HitTypeOK
    <3> QED  BY <1>1, <2>1, <3>1, HitRecords DEF H!HitTypeOK, H!ToSet
  <2>3. IntervalInv'
    BY <2>1 DEF IntervalInv
  <2> QED  BY <1>1, <2>2, <2>3, HitRecords, HitAddsUp
<1>2. CASE H!HitClear
  <2>1. /\ m_hitMap' = [p \in HitPlaces |-> <<>>] /\ m_hitList' = <<>>
        /\ laps' = H!OutOfOrder /\ UNCHANGED <<time, m_intevalMap, passed>>
    BY <1>2 DEF H!HitClear
  <2>2. H!HitTypeOK'
    BY <2>1, EmptySeq DEF H!HitTypeOK, H!ToSet
  <2>3. ListInv' /\ LapInv'
    BY <2>1, HitAssumption, EmptySeq DEF ListInv, LapInv, H!OutOfOrder
  <2>4. IntervalInv'
    BY <2>1 DEF IntervalInv
  <2> QED  BY <2>2, <2>3, <2>4
<1>3. ASSUME NEW p \in IntervalPlaces, H!Interval(p)
      PROVE  HitsInv'
  <2>1. /\ UNCHANGED <<time, m_hitMap, m_hitList, laps>>
        /\ m_intevalMap' = [m_intevalMap EXCEPT ![p] = <<time>>]
    BY <1>3 DEF H!Interval, H!hitVars
  <2>2. m_intevalMap \in [IntervalPlaces -> Seq(0..LastTime)] /\ time \in 0..LastTime
    BY DEF H!HitTypeOK
  <2>3. H!HitTypeOK'
    BY <2>1, <2>2 DEF H!HitTypeOK, H!ToSet
  <2>4. ListInv' /\ LapInv'
    BY <2>1 DEF ListInv, LapInv, H!Last
  <2>5. IntervalInv'
    <3>1. passed \in [IntervalPlaces -> [first : Int, sum : Int]] /\ time \in Int
      BY <2>2, HitAssumption DEF IntervalInv
    <3>2. CASE m_intevalMap[p] = <<>>
      <4>1. passed' = [passed EXCEPT ![p] = [first |-> time, sum |-> 0]]
        BY <1>3, <3>2 DEF H!Interval
      <4> QED  BY <2>1, <2>2, <3>1, <4>1 DEF IntervalInv
    <3>3. CASE m_intevalMap[p] # <<>>
      <4>1. passed' = [passed EXCEPT ![p].sum = @ + time - Head(m_intevalMap[p])]
        BY <1>3, <3>3 DEF H!Interval
      <4>2. Head(m_intevalMap[p]) \in Int
        BY <2>2, <3>3, HitAssumption, HeadTailProperties
      <4>3. passed[p].first + passed[p].sum = Head(m_intevalMap[p])
        BY <3>3 DEF IntervalInv
      <4> QED  BY <2>1, <2>2, <3>1, <4>1, <4>2, <4>3 DEF IntervalInv
    <3> QED  BY <3>2, <3>3
  <2> QED  BY <2>3, <2>4, <2>5
<1>4. CASE H!Tick \/ UNCHANGED H!testVars
  <2>1. UNCHANGED <<m_hitMap, m_hitList, laps, m_intevalMap, passed>>
    BY <1>4 DEF H!Tick, H!testVars, H!hitVars
  <2>2. time' \in 0..LastTime
    BY <1>4, HitAssumption DEF H!Tick, H!testVars, H!HitTypeOK
  <2> QED
    BY <2>1, <2>2 DEF H!HitTypeOK, H!ToSet, ListInv, LapInv, H!Last, IntervalInv
<1> QED  BY <1>1, <1>2, <1>3, <1>4 DEF H!HitNext

(* The times told add up, in whatever order the places are hit, at         *)
(* whatever times, and wherever they are cleared (TestTime.hpp:59-89).     *)
THEOREM TimesAddUp == H!HitSpec => []LapsAddUp
<1>1. HitsInv => LapsAddUp
  BY DEF HitsInv, LapsAddUp, H!LapsAddUp, LapInv, IntervalInv
<1> QED  BY <1>1, InitHitsInv, StepHitsInv, PTL DEF H!HitSpec
=============================================================================
