------------------------------ MODULE RedisMgr ------------------------------
(***************************************************************************)
(* breUtils/database/RedisMgr.hpp over RedisPool: every command borrows a  *)
(* context, sends one request, decides from the type of the reply what to  *)
(* tell its caller, and gives the context back on each of its paths.  The  *)
(* caller is told nothing else: the answer is true or false (for HGet a    *)
(* value or "").  One key is enough, the server serves one request at a    *)
(* time; what it does is modelled from the replies the code expects.       *)
(*                                                                         *)
(* The file does not compile (open has no return type and names a class    *)
(* RedisConPool): its evident reading is modelled.                         *)
(***************************************************************************)
EXTENDS RedisPool, Sequences

CONSTANT MaxElements   \* bound on the values that writes give the server

ASSUME MaxElementsAssumption == MaxElements \in Nat

VARIABLES store,    \* the server's value of the key: its kind and its elements
          next,     \* the value that the next write carries
          broken,   \* contexts whose err is set: their connection is gone
          answer    \* what the command each client is inside of will return

mgrVars == <<store, next, broken, answer>>
vars    == <<poolVars, checkVars, mgrVars>>

Missing == [kind |-> "none", items |-> <<>>]

MgrTypeOK ==
    /\ store.kind \in {"none", "string", "list", "hash"}
    /\ \A n \in 1..Len(store.items) : store.items[n] \in 1..MaxElements
    /\ next \in 1..(MaxElements + 1)
    /\ broken \subseteq Connections
    /\ answer \in [Clients -> {"none", "true", "false"}]
    /\ \A t \in Clients : answer[t] # "none" => stage[t] = "using"

Init ==
    /\ PoolInit
    /\ CheckInit
    /\ store = Missing
    /\ next = 1
    /\ broken = {}
    /\ answer = [t \in Clients |-> "none"]

-----------------------------------------------------------------------------
(* The server.  A key of another kind than the command's is an error.      *)
Writes   == {"SET", "LPUSH", "RPUSH", "HSET"}
KindOf   == [GET |-> "string", LPUSH |-> "list", RPUSH |-> "list", LPOP |-> "list",
             RPOP |-> "list", HSET |-> "hash", HGET |-> "hash", HDEL |-> "hash"]
Integer(n)  == [type |-> "integer", n |-> n]
Reply(type) == [type |-> type, n |-> 0]
Null        == Reply("null")     \* redisCommand returned NULL

Holding(kind, items) == IF items = <<>> THEN Missing ELSE [kind |-> kind, items |-> items]

(* The reply to a request and the value it leaves behind.                  *)
Serve(cmd) ==
    LET old  == store.items
        none == store = Missing
    IN  CASE cmd = "SET" -> <<Reply("status"), Holding("string", <<next>>)>>
          [] cmd = "DEL" -> <<Integer(IF none THEN 0 ELSE 1), Missing>>
          [] cmd = "EXISTS" -> <<Integer(IF none THEN 0 ELSE 1), store>>
          [] cmd \in DOMAIN KindOf /\ store.kind \notin {"none", KindOf[cmd]}
                -> <<Reply("error"), store>>
          [] cmd \in {"GET", "HGET"} /\ store.kind \in {"none", KindOf[cmd]}
                -> <<Reply(IF none THEN "nil" ELSE "string"), store>>
          [] cmd = "LPUSH" /\ store.kind \in {"none", "list"}
                -> <<Integer(Len(old) + 1), Holding("list", <<next>> \o old)>>
          [] cmd = "RPUSH" /\ store.kind \in {"none", "list"}
                -> <<Integer(Len(old) + 1), Holding("list", old \o <<next>>)>>
          [] cmd \in {"LPOP", "RPOP"} /\ none -> <<Reply("nil"), store>>
          [] cmd = "LPOP" /\ store.kind = "list"
                -> <<Reply("string"), Holding("list", Tail(old))>>
          [] cmd = "RPOP" /\ store.kind = "list"
                -> <<Reply("string"), Holding("list", SubSeq(old, 1, Len(old) - 1))>>
          [] cmd = "HSET" /\ store.kind \in {"none", "hash"}
                -> <<Integer(IF none THEN 1 ELSE 0), Holding("hash", <<next>>)>>
          [] cmd = "HDEL" /\ store.kind \in {"none", "hash"}
                -> <<Integer(IF none THEN 0 ELSE 1), Missing>>

-----------------------------------------------------------------------------
(* redisCommand on the context t has borrowed.  A broken context answers   *)
(* NULL for ever; a connection can break before the server has the request *)
(* or after, when only the reply is lost.                                  *)
Exchange(t, cmd, r) ==
    \/ /\ con[t] \intersect broken = {}
       /\ r = Serve(cmd)[1]
       /\ store' = Serve(cmd)[2]
       /\ next' = IF cmd \in Writes THEN next + 1 ELSE next
       /\ UNCHANGED broken
    \/ /\ r = Null
       /\ con[t] \intersect broken = {}
       /\ store' \in {store, Serve(cmd)[2]}
       /\ next' = IF cmd \in Writes THEN next + 1 ELSE next
       /\ broken' = broken \union con[t]
    \/ /\ r = Null
       /\ con[t] \subseteq broken
       /\ UNCHANGED <<store, next, broken>>

Replies == {Reply(type) : type \in {"null", "nil", "status", "string", "error"}}
             \union {Integer(n) : n \in 0..(MaxElements + 1)}

(* A command up to its decision; good are the replies it takes for success.*)
Command(t, cmd, good) ==
    /\ stage[t] = "using"
    /\ answer[t] = "none"
    /\ cmd \in Writes => next <= MaxElements
    /\ \E r \in Replies :
          /\ Exchange(t, cmd, r)
          /\ answer' = [answer EXCEPT ![t] = IF r \in good THEN "true" ELSE "false"]
    /\ UNCHANGED <<poolVars, checkVars>>

OfType(type) == {r \in Replies : r.type = type}
Positive     == {r \in OfType("integer") : r.n > 0}
NotNil       == Replies \ (OfType("null") \union OfType("nil"))

Get(t)       == Command(t, "GET", OfType("string"))
Set(t)       == Command(t, "SET", OfType("status"))
(* Mutant of LPush: any reply but nil is a success, as in LPop.            *)
LPushAny(t)  == Command(t, "LPUSH", NotNil)
LPush(t)     == Command(t, "LPUSH", Positive)
LPop(t)      == Command(t, "LPOP", NotNil)
RPush(t)     == Command(t, "RPUSH", Positive)
RPop(t)      == Command(t, "RPOP", NotNil)
HSet(t)      == Command(t, "HSET", OfType("integer"))
HSetBytes(t) == Command(t, "HSET", OfType("integer"))
HGet(t)      == Command(t, "HGET", NotNil)
HDel(t)      == Command(t, "HDEL", Positive)
Del(t)       == Command(t, "DEL", OfType("integer"))
ExistsKey(t) == Command(t, "EXISTS", Positive)

Push(t)  == LPush(t) \/ RPush(t)
Pop(t)   == LPop(t) \/ RPop(t)
Write(t) == Set(t) \/ Push(t) \/ HSet(t) \/ HSetBytes(t)

(* Mutant of GiveBack: the paths that return false forget the context.     *)
GiveBackIfTrue(t) ==
    /\ \/ answer[t] = "true" /\ returnConnection(t)
       \/ /\ answer[t] = "false"
          /\ stage' = [stage EXCEPT ![t] = "idle"]
          /\ UNCHANGED <<pool, b_stop, mutex, cond, con, closer, discarded>>
    /\ answer' = [answer EXCEPT ![t] = "none"]
    /\ UNCHANGED <<checkVars, store, next, broken>>

(* The end of every path of a command, by hand or by HDel's Defer.         *)
GiveBack(t) ==
    /\ answer[t] # "none"
    /\ returnConnection(t)
    /\ answer' = [answer EXCEPT ![t] = "none"]
    /\ UNCHANGED <<checkVars, store, next, broken>>

(* The check's PING: the context goes back whether it answers, has just    *)
(* lost its connection, lost it before, or was connected anew.             *)
CheckPing ==
    /\ CheckPut
    /\ broken' \in {broken, broken \union checked, broken \ checked}
    /\ UNCHANGED <<store, next, answer>>

(* RedisMgr::Close goes on with ClearConnections, whoever borrows.         *)
CloseClear ==
    /\ closer = "notified"
    /\ mutex = Free
    /\ pool' = {}
    /\ discarded' = discarded \union pool
    /\ closer' = "closed"
    /\ UNCHANGED <<b_stop, mutex, cond, stage, con, checkVars, mgrVars>>

(* The once_flag of Inst is a local variable, so every call of Inst opens  *)
(* the manager again: the old pool is destroyed (ClearConnections and      *)
(* DestroyCancel) and a new one begins.                                    *)
Open ==
    /\ closer = "cleared"
    /\ timer = "cancelled"
    /\ check = "rest"
    /\ pool' = Connections /\ discarded' = {} /\ broken' = {}
    /\ b_stop' = FALSE
    /\ closer' = "open"
    /\ timer' = "running"
    /\ UNCHANGED <<mutex, cond, stage, con, check, i, checked, store, next, answer>>

PoolStep == \E t \in Clients : \/ getConnection(t) \/ Sleep(t)
                               \/ Resume(t) \/ SpuriousReturn(t)

Next == \/ (PoolStep \/ CloseStop \/ CloseNotify) /\ UNCHANGED <<checkVars, mgrVars>>
        \/ (CheckBegin \/ CheckTake \/ CheckDrop \/ CheckEnd) /\ UNCHANGED mgrVars
        \/ CheckPing
        \/ (ClearConnections \/ DestroyCancel) /\ UNCHANGED mgrVars
        \/ CloseClear
        \/ Open
        \/ \E t \in Clients : \/ Get(t) \/ Write(t) \/ Pop(t) \/ HGet(t)
                              \/ HDel(t) \/ Del(t) \/ ExistsKey(t)
                              \/ GiveBack(t)

Spec == Init /\ [][Next]_vars

-----------------------------------------------------------------------------
(* Every path of every command gives its context back, whatever becomes of *)
(* the reply: outside a command a client holds none, and no context is     *)
(* shared, pushed twice or lost.  Nor by the check, which calls front() on *)
(* the strength of the size it read before its loop and still runs when    *)
(* the destructor clears the pool (RedisMgr.hpp:61-401, RedisPool.hpp:     *)
(* 51-63, 103-106).                                                        *)
ContextsComeBack ==
    /\ MgrTypeOK /\ PoolIntact /\ CheckOwnsTheQueue
    /\ \A t \in Clients : stage[t] # "using" => con[t] = {}

Added(kind, items) == /\ store.kind \in {"none", kind}
                      /\ store' = [kind |-> kind, items |-> items]
Other(kind) == store.kind \notin {"none", kind}

AllButLast(items) == SubSeq(items, 1, Len(items) - 1)

(* A Pop took an element and left the others.                              *)
Took(others) == IF store.kind = "list" THEN store'.items = others
                                       ELSE store # Missing /\ store' = store

AnswerIsTrue(t) ==
    LET ok   == answer'[t] = "true"
        lost == con[t] \intersect broken' # {}
    IN  /\ lost => ~ok
        /\ ~lost =>
              /\ ~ok => store' = store
              /\ Set(t) => ok /\ store' = [kind |-> "string", items |-> <<next>>]
              /\ Get(t) => IF ok THEN store.kind = "string" /\ store' = store
                                 ELSE store.kind # "string"
              /\ LPush(t) => IF ok THEN Added("list", <<next>> \o store.items)
                                   ELSE Other("list")
              /\ RPush(t) => IF ok THEN Added("list", store.items \o <<next>>)
                                   ELSE Other("list")
              /\ LPop(t) => IF ok THEN Took(Tail(store.items)) ELSE store = Missing
              /\ RPop(t) => IF ok THEN Took(AllButLast(store.items)) ELSE store = Missing
              /\ HSet(t) \/ HSetBytes(t) => IF ok THEN Added("hash", <<next>>)
                                             ELSE Other("hash")
              /\ HGet(t) => IF ok THEN store # Missing /\ store' = store
                                  ELSE store = Missing
              /\ HDel(t) => IF ok THEN store.kind = "hash" /\ store' = Missing
                                  ELSE store.kind # "hash"
              /\ Del(t) => ok /\ store' = Missing
              /\ ExistsKey(t) => IF ok THEN store # Missing ELSE store = Missing

(* What a command tells its caller against what the server did.  True (or  *)
(* a value) comes only over a connection that holds.  Over such a one, Get *)
(* found a string; a write did what its name says; a Pop took the element  *)
(* at its end and HGet found a value, or the key is of another type and    *)
(* the "value" they return is the server's error text; Del leaves no key,  *)
(* whether there was one or not; HDel and ExistsKey found what they name.  *)
(* False means that nothing was written, and why (RedisMgr.hpp:61-401).    *)
AnswersAreTrue ==
    [][\A t \in Clients : answer[t] = "none" /\ answer'[t] # "none" => AnswerIsTrue(t)]_vars
=============================================================================
