----------------------------- MODULE RedisPool -----------------------------
(***************************************************************************)
(* breUtils/database/RedisPool.hpp.  The check that its timer runs holds   *)
(* _mutex from its first line to its last, through every PING: clients see *)
(* it as one step, but Close, which does not take the mutex, can stop it   *)
(* between two connections.  Close ends with check_thread_.join() on a     *)
(* member that does not exist; the timer is cancelled by the destructor,   *)
(* after it has cleared the pool.  RedisMgr composes these steps.          *)
(***************************************************************************)
EXTENDS ConnectionPool

VARIABLES check,    \* where checkThread is
          i,        \* how many connections it has still to look at
          checked,  \* the context it has popped
          timer     \* of _check_timer: after Cancel, "expired" if a check
                    \* whose wait was over is still to come

checkVars == <<check, i, checked, timer>>

TypeOK ==
    /\ PoolTypeOK
    /\ check \in {"rest", "loop", "ping"}
    /\ i \in 0..Cardinality(Connections)
    /\ checked \subseteq Connections /\ Cardinality(checked) <= 1
    /\ timer \in {"running", "expired", "cancelled"}
    /\ mutex = Checker <=> check # "rest"

CheckInit ==
    /\ check = "rest"
    /\ i = 0
    /\ checked = {}
    /\ timer = "running"

CheckBegin ==
    /\ check = "rest"
    /\ mutex = Free
    /\ timer # "cancelled"
    /\ timer' = IF timer = "expired" THEN "cancelled" ELSE timer
    /\ \/ b_stop /\ UNCHANGED <<check, mutex, i>>
       \/ ~b_stop /\ check' = "loop" /\ mutex' = Checker /\ i' = Cardinality(pool)
    /\ UNCHANGED <<pool, b_stop, cond, stage, con, closer, discarded, checked>>

CheckTake ==
    /\ check = "loop"
    /\ i > 0 /\ ~b_stop
    /\ \E c \in pool : pool' = pool \ {c} /\ checked' = {c}
    /\ i' = i - 1
    /\ check' = "ping"
    /\ UNCHANGED <<b_stop, mutex, cond, stage, con, closer, discarded, timer>>

(* With an answer, without one, or reconnected: back it goes.              *)
CheckPut ==
    /\ check = "ping"
    /\ pool' = pool \union checked
    /\ checked' = {}
    /\ check' = "loop"
    /\ UNCHANGED <<b_stop, mutex, cond, stage, con, closer, discarded, i, timer>>

(* An exception, and no new connection: the pool is smaller from now on.   *)
CheckDrop ==
    /\ check = "ping"
    /\ discarded' = discarded \union checked
    /\ checked' = {}
    /\ check' = "loop"
    /\ UNCHANGED <<pool, b_stop, mutex, cond, stage, con, closer, i, timer>>

CheckEnd ==
    /\ check = "loop"
    /\ i = 0 \/ b_stop
    /\ check' = "rest"
    /\ i' = 0
    /\ mutex' = Free
    /\ UNCHANGED <<pool, b_stop, cond, stage, con, closer, discarded, checked, timer>>

(* The destructor does not call Close.                                     *)
ClearConnections ==
    /\ closer \in {"open", "notified", "closed"}
    /\ Clear
    /\ UNCHANGED checkVars

DestroyCancel ==
    /\ closer = "cleared"
    /\ timer = "running"
    /\ timer' \in IF check = "rest" THEN {"cancelled", "expired"} ELSE {"cancelled"}
    /\ UNCHANGED <<poolVars, check, i, checked>>

-----------------------------------------------------------------------------
(* No context is used by two threads, pushed twice or lost: each is in the *)
(* queue, with one client, with the check, or was freed or leaked after a  *)
(* stop, a failed reconnect or the destructor (RedisPool.hpp:56-89,        *)
(* 104-138).                                                               *)
PoolIntact == TypeOK /\ ConnectionsPartitioned(checked)

(* Because the check never lets the mutex go, its pushes need no           *)
(* notification: when nobody holds the mutex of a pool that is open, every *)
(* free context of a pool with sleepers has a woken client on its way      *)
(* (RedisPool.hpp:82-89, 98-141).                                          *)
EveryFreeContextIsAnnounced ==
    (mutex # Checker /\ cond # {} /\ ~b_stop)
        => Cardinality(pool) <= Cardinality(WokenClients)

(* checkThread calls front() on the strength of the size it read at the    *)
(* start, which must last for the loop; and the timer still runs when the  *)
(* destructor clears the pool: what the check does then must not put back  *)
(* what redisFree would miss (RedisPool.hpp:51-63, 103-106).               *)
CheckOwnsTheQueue ==
    /\ check = "loop" => i <= Cardinality(pool)
    /\ closer = "cleared" => pool = {} /\ checked = {}
=============================================================================
