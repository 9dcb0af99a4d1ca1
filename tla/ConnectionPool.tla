--------------------------- MODULE ConnectionPool ---------------------------
(***************************************************************************)
(* What MySqlPool and RedisPool of breUtils/database have in common:       *)
(* clients borrow and return connections under one mutex, waiting on one   *)
(* condition variable, and Close sets the atomic _b_stop and notifies      *)
(* without the mutex.  A waiter tests the predicate and goes to sleep with *)
(* the mutex held, but Close does not ask for it: the test and the sleep   *)
(* are two steps.  The background checks differ and are left to the        *)
(* modules that extend this one.                                           *)
(***************************************************************************)
EXTENDS Naturals, FiniteSets

CONSTANTS Clients,       \* threads that borrow connections
          Connections    \* the connections the constructor opened

ASSUME FiniteAssumption == IsFiniteSet(Clients) /\ IsFiniteSet(Connections)

VARIABLES pool,      \* _pool, _connections: free connections
          b_stop,    \* _b_stop
          mutex,     \* the thread that holds _mutex over several steps
          cond,      \* clients asleep in _cond.wait
          stage,     \* where each client is
          con,       \* the connections each client holds
          closer,    \* where the thread that calls Close is
          discarded  \* connections that were destroyed or leaked

poolVars == <<pool, b_stop, mutex, cond, stage, con, closer, discarded>>

Free    == "free"
Checker == "checker"   \* the thread of _check_timer

ASSUME ClientAssumption == Free \notin Clients /\ Checker \notin Clients

PoolTypeOK ==
    /\ pool \subseteq Connections
    /\ b_stop \in BOOLEAN
    /\ mutex \in Clients \union {Free, Checker}
    /\ cond \subseteq {t \in Clients : stage[t] = "wait"}
    /\ stage \in [Clients -> {"idle", "test", "wait", "using"}]
    /\ con \in [Clients -> SUBSET Connections]
    /\ closer \in {"open", "stopped", "notified", "closed", "cleared"}
    /\ discarded \subseteq Connections

PoolInit ==
    /\ pool = Connections
    /\ b_stop = FALSE
    /\ mutex = Free
    /\ cond = {}
    /\ stage = [t \in Clients |-> "idle"]
    /\ con = [t \in Clients |-> {}]
    /\ closer = "open"
    /\ discarded = {}

NotifyOne == cond' \in IF cond = {} THEN {{}} ELSE {cond \ {t} : t \in cond}

(* The predicate holds: a null pointer if stopped, else a connection.      *)
Obtain(t) ==
    \/ /\ b_stop
       /\ stage' = [stage EXCEPT ![t] = "idle"]
       /\ UNCHANGED <<pool, con, mutex>>
    \/ /\ ~b_stop
       /\ \E c \in pool : /\ pool' = pool \ {c}
                          /\ con' = [con EXCEPT ![t] = {c}]
       /\ stage' = [stage EXCEPT ![t] = "using"]
       /\ UNCHANGED mutex
    \/ /\ ~b_stop
       /\ pool = {}
       /\ stage' = [stage EXCEPT ![t] = "test"]
       /\ mutex' = t
       /\ UNCHANGED <<pool, con>>

getConnection(t) ==
    /\ stage[t] = "idle"
    /\ closer # "cleared"
    /\ mutex = Free
    /\ Obtain(t)
    /\ UNCHANGED <<b_stop, cond, closer, discarded>>

(* The predicate was false: release the mutex and sleep.                   *)
Sleep(t) ==
    /\ stage[t] = "test"
    /\ cond' = cond \union {t}
    /\ stage' = [stage EXCEPT ![t] = "wait"]
    /\ mutex' = Free
    /\ UNCHANGED <<pool, b_stop, con, closer, discarded>>

Woken(t) == stage[t] = "wait" /\ t \notin cond

Resume(t) ==
    /\ Woken(t)
    /\ mutex = Free
    /\ Obtain(t)
    /\ UNCHANGED <<b_stop, cond, closer, discarded>>

(* Mutant of returnConnection: a connection put back is not announced.     *)
returnSilently(t) ==
    /\ stage[t] = "using"
    /\ mutex = Free
    /\ IF b_stop THEN discarded' = discarded \union con[t] /\ UNCHANGED pool
                 ELSE pool' = pool \union con[t] /\ UNCHANGED discarded
    /\ con' = [con EXCEPT ![t] = {}]
    /\ stage' = [stage EXCEPT ![t] = "idle"]
    /\ UNCHANGED <<b_stop, mutex, cond, closer>>

(* After a stop the connection is dropped: destroyed with its unique_ptr   *)
(* by MySqlPool, leaked by RedisPool.                                      *)
returnConnection(t) ==
    /\ stage[t] = "using"
    /\ mutex = Free
    /\ \/ /\ b_stop
          /\ discarded' = discarded \union con[t]
          /\ UNCHANGED <<pool, cond>>
       \/ /\ ~b_stop
          /\ pool' = pool \union con[t]
          /\ NotifyOne
          /\ UNCHANGED discarded
    /\ con' = [con EXCEPT ![t] = {}]
    /\ stage' = [stage EXCEPT ![t] = "idle"]
    /\ UNCHANGED <<b_stop, mutex, closer>>

SpuriousReturn(t) ==
    /\ t \in cond
    /\ cond' = cond \ {t}
    /\ UNCHANGED <<pool, b_stop, mutex, stage, con, closer, discarded>>

(* Close, in its two steps that matter to the clients.                     *)
CloseStop ==
    /\ closer = "open"
    /\ b_stop' = TRUE
    /\ closer' = "stopped"
    /\ UNCHANGED <<pool, mutex, cond, stage, con, discarded>>

(* Mutant of CloseNotify: notify_one for notify_all.                       *)
CloseNotifyOne ==
    /\ closer = "stopped"
    /\ NotifyOne
    /\ closer' = "notified"
    /\ UNCHANGED <<pool, b_stop, mutex, stage, con, discarded>>

CloseNotify ==
    /\ closer = "stopped"
    /\ cond' = {}
    /\ closer' = "notified"
    /\ UNCHANGED <<pool, b_stop, mutex, stage, con, discarded>>

(* The destructor's loop over the free connections.  The pool outlives the *)
(* calls on it: nobody is inside one or has a connection to return.        *)
Clear ==
    /\ \A t \in Clients : stage[t] = "idle"
    /\ mutex = Free
    /\ pool' = {}
    /\ discarded' = discarded \union pool
    /\ closer' = "cleared"
    /\ UNCHANGED <<b_stop, mutex, cond, stage, con>>

ClientStep(t) == getConnection(t) \/ Sleep(t) \/ Resume(t) \/ returnConnection(t)

PoolNext == \/ \E t \in Clients : ClientStep(t) \/ SpuriousReturn(t)
            \/ CloseStop \/ CloseNotify

-----------------------------------------------------------------------------
WokenClients == {t \in Clients : Woken(t)}

(* Where the connections are: pairwise disjoint places, for a checker that *)
(* holds the set "checked".                                                *)
ConnectionsPartitioned(checked) ==
    /\ \A c \in Connections : \/ c \in pool \union checked \union discarded
                             \/ \E t \in Clients : c \in con[t]
    /\ pool \intersect checked = {}
    /\ (pool \union checked) \intersect discarded = {}
    /\ \A t \in Clients :
          /\ con[t] \intersect (pool \union checked \union discarded) = {}
          /\ \A u \in Clients \ {t} : con[t] \intersect con[u] = {}

(* Close sets _b_stop without the mutex, so a client can test the          *)
(* predicate before and fall asleep after Close's notify_all.  Because the *)
(* mutex is held from the test to the sleep, at most one client can.       *)
AtMostOneMissesClose ==
    closer \in {"notified", "closed"} => \A t, u \in cond : t = u
=============================================================================
