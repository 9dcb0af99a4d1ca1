----------------------------- MODULE SnowWorker -----------------------------
(***************************************************************************)
(* SnowWorker of breUtils/uuid/uuid.hpp: IDs made of a millisecond tick    *)
(* and a sequence number.  Next runs under one mutex, so a call is one     *)
(* action whoever makes it.  The tick a call reads comes from system_clock,*)
(* which may stand still or be set back: it is any tick at all.            *)
(***************************************************************************)
EXTENDS Integers

CONSTANTS OptionChoices,  \* the IdGenOptions a program may construct with
          Ticks,          \* what getCurrentTimeTick may return
          MaxIds          \* bound: IDs issued in a behaviour

ASSUME OptionAssumption ==
    OptionChoices \subseteq [SeqBitLength : 0..255, MaxSeqNumber : 0..255,
                             MinSeqNumber : 0..255]
ASSUME TickAssumption == Ticks \subseteq Int
ASSUME BoundAssumption == MaxIds \in Nat
ASSUME PowerAssumption == \A b \in 2..21 : 2^b \in Nat \ {0}

VARIABLES seqRange,          \* 2^_seqBitLength
          minSeqNumber,
          maxSeqNumber,
          lastTimeTick,
          currentSeqNumber,
          id,                \* the ID returned last; -1 before the first
          latest,            \* history: the latest tick read, at least 0
          issued             \* history: how many IDs were returned

vars == <<seqRange, minSeqNumber, maxSeqNumber, lastTimeTick,
          currentSeqNumber, id, latest, issued>>

TypeOK ==
    /\ seqRange \in Nat \ {0}
    /\ {minSeqNumber, maxSeqNumber, currentSeqNumber} \subseteq Nat
    /\ {lastTimeTick, latest, issued} \subseteq Nat
    /\ id \in Int

(* MaxSeqNumber = 0 asks for all the bits.                                 *)
EffectiveMax(o) == IF o.MaxSeqNumber = 0 THEN 2^o.SeqBitLength - 1
                                         ELSE o.MaxSeqNumber

(* setOptions throws on any other options.  (The tests of BaseTime, which  *)
(* only shifts the ticks, are left out.)                                   *)
Accepted(o) ==
    /\ o.SeqBitLength \in 2..21
    /\ o.MaxSeqNumber <= 2^o.SeqBitLength - 1
    /\ o.MinSeqNumber >= 5
    /\ o.MinSeqNumber <= EffectiveMax(o)

Init ==
    /\ \E o \in OptionChoices :
          /\ Accepted(o)
          /\ seqRange = 2^o.SeqBitLength
          /\ maxSeqNumber = EffectiveMax(o)
          /\ minSeqNumber = o.MinSeqNumber
    /\ lastTimeTick = 0
    /\ currentSeqNumber = minSeqNumber
    /\ id = -1
    /\ latest = 0
    /\ issued = 0

(* The branches of Next choose the tick and the sequence number ...        *)
NewTick(tick) == tick > lastTimeTick
Exhausted     == currentSeqNumber > maxSeqNumber

(* Mutant of TickAndSeq: a tick that differs is taken for a later one.     *)
TickAndSeqUnordered(tick) ==
    IF tick # lastTimeTick THEN <<tick, minSeqNumber>>
    ELSE IF Exhausted THEN <<lastTimeTick + 1, minSeqNumber>>
    ELSE <<lastTimeTick, currentSeqNumber>>

(* Mutant of TickAndSeq: an exhausted tick is left two at a time.          *)
TickAndSeqSkips(tick) ==
    IF NewTick(tick) THEN <<tick, minSeqNumber>>
    ELSE IF Exhausted THEN <<lastTimeTick + 2, minSeqNumber>>
    ELSE <<lastTimeTick, currentSeqNumber>>

TickAndSeq(tick) ==
    IF NewTick(tick) THEN <<tick, minSeqNumber>>
    ELSE IF Exhausted THEN <<lastTimeTick + 1, minSeqNumber>>
    ELSE <<lastTimeTick, currentSeqNumber>>

(* ... and calculateId puts them together: the shifted tick has no bit in  *)
(* common with a sequence number below seqRange, so "|" is a sum.          *)
calculateId(tickSeq) == tickSeq[1] * seqRange + tickSeq[2]

NextId(tick) ==
    /\ issued < MaxIds
    /\ LET ts == TickAndSeq(tick) IN
          /\ lastTimeTick' = ts[1]
          /\ currentSeqNumber' = ts[2] + 1
          /\ id' = calculateId(ts)
    /\ latest' = IF tick > latest THEN tick ELSE latest
    /\ issued' = issued + 1
    /\ UNCHANGED <<seqRange, minSeqNumber, maxSeqNumber>>

Next == \E tick \in Ticks : NextId(tick)

Spec == Init /\ [][Next]_vars

-----------------------------------------------------------------------------
(* The ID a call returns is larger than every ID returned before, even     *)
(* when the clock stands still or is set back (uuid.hpp:32-39): no two     *)
(* calls get the same ID.                                                  *)
IdsIncrease == [][issued' > issued => id' > id]_vars

(* A worker borrows the next millisecond only when a tick's numbers are    *)
(* used up: its tick runs ahead of the latest clock reading by at most one *)
(* for every maxSeqNumber - minSeqNumber + 1 IDs issued.                   *)
DriftBounded ==
    (lastTimeTick - latest) * (maxSeqNumber - minSeqNumber + 1) <= issued

(* The last ID is that of the current tick, and the numbers of a tick fit  *)
(* below seqRange: the strengthening the proof of IdsIncrease needs.       *)
WorkerInv ==
    /\ minSeqNumber <= maxSeqNumber
    /\ maxSeqNumber < seqRange
    /\ currentSeqNumber \in minSeqNumber..(maxSeqNumber + 1)
    /\ id < lastTimeTick * seqRange + currentSeqNumber
=============================================================================
