------------------------------- MODULE MCLog -------------------------------
(* Two loggers, a queue of one line, files of two lines, and one failure   *)
(* to open a file.  A line is as good as another, and so is a logger: the  *)
(* lines are logged in their order, and of two idle loggers the first one  *)
(* logs, which spares TLC their permutations.                              *)
EXTENDS Log

CONSTANTS t1, t2, l1, l2, l3,
          MaxFailures         \* bound: files that cannot be opened

MCLoggers == {t1, t2}
MCLines   == {l1, l2, l3}
Order     == <<l1, l2, l3>>

InUse(l) == l \in ToSet(accepted) \/ \E t \in Loggers : line[t] = l

LinesInOrder == \A k \in DOMAIN Order :
                   InUse(Order[k])' /\ ~InUse(Order[k]) =>
                       \A j \in 1..(k - 1) : InUse(Order[j])

FirstLogs == stage[t2] = "idle" /\ stage'[t2] # "idle" => stage[t1] # "idle"

MCLogNext ==
    Next /\ LinesInOrder /\ FirstLogs /\ Cardinality(failures') <= MaxFailures

MCLogSpec == Init /\ [][MCLogNext]_vars /\ Fairness
=============================================================================
