------------------------------ MODULE TestTime ------------------------------
(***************************************************************************)
(* TestTime of breUtils/TestTime.hpp: places of a program that are hit one *)
(* after the other, and are each told how long it took since the place     *)
(* before, in the order in which the places were first hit; and places     *)
(* that are told how long it is since they were passed themselves.         *)
(*                                                                         *)
(* Hit works, and reads the clock, with the mutex held, for any thread;    *)
(* the map of Interval has no lock and is used by one thread.              *)
(***************************************************************************)
EXTENDS Integers, Sequences, SequencesExt

CONSTANTS HitPlaces,       \* places that call Hit
          IntervalPlaces,  \* places that call Interval
          LastTime,        \* bound: of the clock
          MaxHits          \* bound: between two calls of HitClear

VARIABLES time,          \* of the clock, which can stand still between two calls
          m_hitMap,      \* time_vec of each place; <<>> for one not in the map
          m_hitList,
          m_intevalMap,  \* <<>>, or when the place was passed
          laps,          \* history: see Laps
          passed         \* history: when each place was first passed, and the
                         \* sum of what Interval told it
hitVars  == <<m_hitMap, m_hitList, laps>>
testVars == <<time, hitVars, m_intevalMap, passed>>

(* While the places are hit in the order of the list, round and round, and *)
(* equally often: the place hit last, when the last hit came that was not  *)
(* told a time, and the sum of the times told since.                       *)
Laps(place, begin, sum) == [latest |-> place, begin |-> begin, sum |-> sum]
OutOfOrder              == [latest |-> "nowhere", begin |-> 0, sum |-> 0]

HitTypeOK ==
    /\ time \in 0..LastTime
    /\ m_hitMap \in [HitPlaces -> Seq(0..LastTime)]
    /\ ToSet(m_hitList) = {p \in HitPlaces : m_hitMap[p] # <<>>}
    /\ m_intevalMap \in [IntervalPlaces -> Seq(0..LastTime)]

HitInit ==
    /\ time = 0
    /\ m_hitMap = [p \in HitPlaces |-> <<>>]
    /\ m_hitList = <<>>
    /\ m_intevalMap = [p \in IntervalPlaces |-> <<>>]
    /\ laps = OutOfOrder
    /\ passed = [p \in IntervalPlaces |-> [first |-> 0, sum |-> 0]]

Tick ==
    /\ time < LastTime
    /\ time' = time + 1
    /\ UNCHANGED <<hitVars, m_intevalMap, passed>>

-----------------------------------------------------------------------------
(* Mutant of Before: the first place is compared with itself.              *)
BeforeNot(list, p) ==
    LET cur_index == SelectInSeq(list, LAMBDA q : q = p)
    IN  list[IF cur_index = 1 THEN 1 ELSE cur_index - 1]

(* The place a hit is compared with: the one before it in the list, or for *)
(* the first place the last one.                                           *)
Before(list, p) ==
    LET cur_index == SelectInSeq(list, LAMBDA q : q = p)
    IN  list[IF cur_index = 1 THEN Len(list) ELSE cur_index - 1]

(* What the author who hits the places in order is told so far.            *)
Told(list, times, p, spend) ==
    LET q     == list[IF p = list[1] THEN Len(list)
                                     ELSE SelectInSeq(list, LAMBDA r : r = p) - 1]
        round == IF p = list[1] THEN Len(times[p]) - 1 ELSE Len(times[p])
    IN  IF Len(list) < 2 THEN Laps(p, time, 0)
        ELSE IF q = laps.latest /\ Len(times[q]) = round
        THEN Laps(p, laps.begin, laps.sum + spend)
        ELSE OutOfOrder

(* Both times are the latest of their places, whatever the counts are: the *)
(* place hit now has just been given its own, and the other is read at its *)
(* own count.                                                              *)
Hit(p) ==
    LET times == [m_hitMap EXCEPT ![p] = Append(@, time)]
        list  == IF m_hitMap[p] = <<>> THEN Append(m_hitList, p) ELSE m_hitList
    IN  /\ FoldSet(LAMBDA q, n : n + Len(m_hitMap[q]), 0, HitPlaces) < MaxHits
        /\ m_hitMap' = times
        /\ m_hitList' = list
        /\ laps' = Told(list, times, p, Last(times[p]) - Last(times[Before(list, p)]))
        /\ UNCHANGED <<time, m_intevalMap, passed>>

HitClear ==
    /\ m_hitMap' = [p \in HitPlaces |-> <<>>]
    /\ m_hitList' = <<>>
    /\ laps' = OutOfOrder
    /\ UNCHANGED <<time, m_intevalMap, passed>>

Interval(p) ==
    /\ \/ /\ m_intevalMap[p] = <<>>
          /\ passed' = [passed EXCEPT ![p] = [first |-> time, sum |-> 0]]
       \/ /\ m_intevalMap[p] # <<>>
          /\ passed' = [passed EXCEPT ![p].sum = @ + time - Head(m_intevalMap[p])]
    /\ m_intevalMap' = [m_intevalMap EXCEPT ![p] = <<time>>]
    /\ UNCHANGED <<time, hitVars>>

HitNext ==
    \/ Tick
    \/ HitClear
    \/ \E p \in HitPlaces : Hit(p)
    \/ \E p \in IntervalPlaces : Interval(p)

HitSpec == HitInit /\ [][HitNext]_testVars

-----------------------------------------------------------------------------
(* Times add up.  As long as the places are hit in the order in which they *)
(* were first hit, round and round, and equally often, which the comment   *)
(* asks for (TestTime.hpp:18), the times told cover the time that passed   *)
(* without a gap and without overlap: no place is compared with a hit of   *)
(* another round, not when the list begins anew, and not after HitClear.   *)
(* The same holds of a place that calls Interval (lines 59-89, 91-132).    *)
LapsAddUp ==
    /\ HitTypeOK
    /\ laps.latest \in HitPlaces =>
          laps.begin + laps.sum = Last(m_hitMap[laps.latest])
    /\ \A p \in IntervalPlaces : m_intevalMap[p] # <<>> =>
          passed[p].first + passed[p].sum = Head(m_intevalMap[p])
=============================================================================
