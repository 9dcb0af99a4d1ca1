----------------------------- MODULE MCWaiting -----------------------------
(* What waits on condition variables, of which a behaviour has one "part": *)
(* a BlockQueue with two producers, two consumers and a thread that closes *)
(* it, without timeouts, or a MySqlPool with four clients and two          *)
(* connections.  The pool may come to a stop, the queue may not.           *)
EXTENDS BlockQueue, MySqlPool

VARIABLE part

WaitingInit == part \in {"queue", "mysql"} /\ Init /\ MySqlInit

WaitingNext ==
    /\ UNCHANGED part
    /\ \/ part = "queue" /\ Next /\ UNCHANGED mySqlVars
       \/ part = "mysql" /\ UNCHANGED vars /\ (MySqlNext \/ UNCHANGED mySqlVars)

WaitingSpec ==
    /\ WaitingInit /\ [][WaitingNext]_<<part, vars, mySqlVars>>
    /\ part = "queue" => Fairness
    /\ part = "mysql" => MySqlFairness
=============================================================================
