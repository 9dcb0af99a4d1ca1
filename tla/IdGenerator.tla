---------------------------- MODULE IdGenerator ----------------------------
(***************************************************************************)
(* IdGenerator of breUtils/uuid/uuid.hpp, called by one thread: every call *)
(* of Next goes through instance(), and then to the worker it finds there. *)
(* The once_flag of instance() is a local variable, new in every call, so  *)
(* call_once always runs and every call meets a worker just built.         *)
(***************************************************************************)
EXTENDS SnowWorker

VARIABLE pc    \* "idle", or "next" between instance() and _worker->Next()

GenVars == <<vars, pc>>

GenInit == Init /\ pc = "idle"

(* make_unique<SnowWorker>(options) replaces the worker.                   *)
instance ==
    /\ pc = "idle"
    /\ issued < MaxIds
    /\ lastTimeTick' = 0
    /\ currentSeqNumber' = minSeqNumber
    /\ pc' = "next"
    /\ UNCHANGED <<seqRange, minSeqNumber, maxSeqNumber, id, latest, issued>>

CallNext(tick) ==
    /\ pc = "next"
    /\ NextId(tick)
    /\ pc' = "idle"

GenNext == instance \/ \E tick \in Ticks : CallNext(tick)

GenSpec == GenInit /\ [][GenNext]_GenVars

-----------------------------------------------------------------------------
(* "Generates the next ID" (uuid.hpp:27), for main.cpp:8-11, which draws   *)
(* ten in a row: no call returns the ID the call before it returned.       *)
NextIdDiffers == [][issued' > issued => id' # id]_GenVars
=============================================================================
