----------------------------- MODULE MySqlPool -----------------------------
(***************************************************************************)
(* breUtils/database/MysqlPool.hpp: the connection pool with the check     *)
(* that its timer runs: it takes the free connections one after the other, *)
(* pings those unused for long, and puts them back - without a             *)
(* notification.  A reconnect that fails throws out of the timer's thread  *)
(* and ends the program.                                                   *)
(***************************************************************************)
EXTENDS ConnectionPool

VARIABLES check,      \* where checkConnection is
          poolSize,   \* its loop counter
          checked,    \* the connection it has taken out
          timer       \* of _check_timer, see CloseCancel

checkVars == <<check, poolSize, checked, timer>>
mySqlVars == <<poolVars, checkVars>>

MySqlTypeOK ==
    /\ PoolTypeOK
    /\ check \in {"rest", "loop", "take", "ping", "put", "crashed"}
    /\ poolSize \in 0..Cardinality(Connections)
    /\ checked \subseteq Connections /\ Cardinality(checked) <= 1
    /\ timer \in {"running", "expired", "cancelled"}

MySqlInit ==
    /\ PoolInit
    /\ check = "rest"
    /\ poolSize = 0
    /\ checked = {}
    /\ timer = "running"

CheckBegin ==
    /\ check = "rest"
    /\ mutex = Free
    /\ poolSize' = Cardinality(pool)
    /\ check' = "loop"
    /\ timer # "cancelled"
    /\ timer' = IF timer = "expired" THEN "cancelled" ELSE timer
    /\ UNCHANGED <<poolVars, checked>>

CheckLoop ==
    /\ check = "loop"
    /\ IF poolSize = 0 \/ b_stop
       THEN check' = "rest" /\ poolSize' = 0
       ELSE check' = "take" /\ poolSize' = poolSize - 1
    /\ UNCHANGED <<poolVars, checked, timer>>

CheckTake ==
    /\ check = "take"
    /\ mutex = Free
    /\ UNCHANGED <<b_stop, mutex, cond, stage, con, closer, discarded, timer>>
    /\ \/ /\ pool = {}
          /\ check' = "rest"
          /\ poolSize' = 0
          /\ UNCHANGED <<pool, checked>>
       \/ \E c \in pool :
          /\ pool' = pool \ {c}
          /\ checked' = {c}
          /\ check' = "ping"
          /\ UNCHANGED poolSize

(* Fresh, answered, or replaced by a new connection to the server ...      *)
CheckPing ==
    /\ check = "ping"
    /\ check' = "put"
    /\ UNCHANGED <<poolVars, poolSize, checked, timer>>

(* ... or neither answered nor replaced: the exception ends the program.   *)
CheckThrow ==
    /\ check = "ping"
    /\ check' = "crashed"
    /\ UNCHANGED <<poolVars, poolSize, checked, timer>>

(* Mutant of CheckPut: a connection is put back only into an open pool.    *)
CheckPutIfOpen ==
    /\ check = "put"
    /\ mutex = Free
    /\ pool' = IF b_stop THEN pool ELSE pool \union checked
    /\ UNCHANGED discarded
    /\ checked' = {}
    /\ check' = "loop"
    /\ UNCHANGED <<b_stop, mutex, cond, stage, con, closer, poolSize, timer>>

CheckPut ==
    /\ check = "put"
    /\ mutex = Free
    /\ pool' = pool \union checked
    /\ UNCHANGED discarded
    /\ checked' = {}
    /\ check' = "loop"
    /\ UNCHANGED <<b_stop, mutex, cond, stage, con, closer, poolSize, timer>>

(* If the wait of the timer was over already, one more check begins after  *)
(* its Cancel.                                                             *)
CloseCancel ==
    /\ closer = "notified"
    /\ timer' \in IF check = "rest" THEN {"cancelled", "expired"} ELSE {"cancelled"}
    /\ closer' = "closed"
    /\ UNCHANGED <<pool, b_stop, mutex, cond, stage, con, discarded, check,
                   poolSize, checked>>

ClearPool ==
    /\ closer = "closed"
    /\ Clear
    /\ UNCHANGED checkVars

CheckStep == CheckLoop \/ CheckTake \/ CheckPing \/ CheckThrow \/ CheckPut

(* A program that was ended does nothing.                                  *)
MySqlNext ==
    /\ check # "crashed"
    /\ \/ PoolNext /\ UNCHANGED checkVars
       \/ CheckBegin
       \/ CheckStep
       \/ CloseCancel \/ ClearPool

MySqlSpec == MySqlInit /\ [][MySqlNext]_mySqlVars

Running(A) == check # "crashed" /\ A

(* A client that holds the mutex goes to sleep, a woken one gets it some   *)
(* time, and Close goes on.  Nobody has to return a connection.            *)
MySqlFairness ==
    /\ \A t \in Clients :
          /\ WF_mySqlVars(Running(Sleep(t) /\ UNCHANGED checkVars))
          /\ SF_mySqlVars(Running(Resume(t) /\ UNCHANGED checkVars))
    /\ WF_mySqlVars(Running(CloseNotify /\ UNCHANGED checkVars))

MySqlFairSpec == MySqlSpec /\ MySqlFairness

-----------------------------------------------------------------------------
(* No connection is used by two threads, put back twice or lost: each is   *)
(* in the pool, with one client, with the check, or was discarded by a     *)
(* return after the stop (MysqlPool.hpp:78-85, 107-136).                   *)
PoolIntact ==
    /\ MySqlTypeOK
    /\ ConnectionsPartitioned(checked)
    /\ discarded # {} => b_stop

(* While a client of an open pool sleeps, all free connections but one     *)
(* have a woken client on its way to them.  The one exception is the       *)
(* connection in the hands of the check, which MysqlPool.hpp:109 puts back *)
(* without a notification: a sleeper can miss that one, and never two.     *)
AtMostOneUnannounced ==
    (cond # {} /\ ~b_stop)
        => Cardinality(pool) + Cardinality(checked)
               <= Cardinality(WokenClients) + 1

(* A client asleep when Close notifies gets out, unless the program ends.  *)
CloseReleases ==
    \A t \in Clients :
        (t \in cond /\ closer = "stopped")
            ~> (stage[t] = "idle" \/ check = "crashed")
=============================================================================
