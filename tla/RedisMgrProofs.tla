--------------------------- MODULE RedisMgrProofs ---------------------------
(***************************************************************************)
(* Proofs about RedisMgr and the RedisPool inside it, for any finite sets  *)
(* of clients and contexts and any number of writes.                       *)
(***************************************************************************)
EXTENDS RedisMgr, FiniteSetTheorems, SequenceTheorems, TLAPS

-----------------------------------------------------------------------------
(* The inductive invariant: the parts of ContextsComeBack, and ...         *)

(* ... a client holds one context while it uses it and none otherwise, and *)
(* the check one while it pings;                                           *)
HandsInv ==
    /\ \A t \in Clients : IF stage[t] = "using"
                          THEN \E c \in Connections : con[t] = {c}
                          ELSE con[t] = {}
    /\ check # "ping" => checked = {}

(* ... the mutex is held over two steps by the check, or from a client's   *)
(* test of the empty pool to its sleep;                                    *)
MutexInv ==
    \A t \in Clients : /\ stage[t] = "test" <=> mutex = t
                       /\ stage[t] = "test" => pool = {}

(* ... what the check has still to look at is there, also after the PING;  *)
LoopInv == check # "rest" => i <= Cardinality(pool)

(* ... nobody is inside a pool that was destroyed, and it stays empty;     *)
CloseInv ==
    /\ closer \in {"stopped", "notified", "closed"} => b_stop
    /\ closer = "cleared" => /\ \A t \in Clients : stage[t] = "idle"
                             /\ pool = {} /\ checked = {}

(* ... and the server's value is one that it can have.                     *)
Values == [kind : {"none", "string", "list", "hash"}, items : Seq(1..MaxElements)]
ValueOK(v) == v \in Values /\ (v.kind = "none" <=> v.items = <<>>)
StoreInv == ValueOK(store)

PoolInv == TypeOK /\ ConnectionsPartitioned(checked) /\ HandsInv /\ MutexInv
               /\ LoopInv /\ CloseInv
IInv == PoolInv /\ MgrTypeOK /\ StoreInv

-----------------------------------------------------------------------------
(* What a step of the manager is to its pool.                              *)
ClientChange(t) ==
    /\ \/ getConnection(t) \/ Sleep(t) \/ Resume(t) \/ SpuriousReturn(t)
       \/ returnConnection(t)
    /\ UNCHANGED checkVars
CheckChange == CheckBegin \/ CheckTake \/ CheckPut \/ CheckDrop \/ CheckEnd
CloseChange == \/ (CloseStop \/ CloseNotify) /\ UNCHANGED checkVars
               \/ CloseClear \/ ClearConnections \/ DestroyCancel \/ Open
PoolChange  == \/ \E t \in Clients : ClientChange(t)
               \/ CheckChange \/ CloseChange
               \/ UNCHANGED <<poolVars, checkVars>>

LEMMA PoolView == [Next]_vars => PoolChange
<1> SUFFICES ASSUME [Next]_vars PROVE PoolChange
  OBVIOUS
<1> USE DEF PoolChange, ClientChange, CheckChange, CloseChange
<1>1. CASE (PoolStep \/ CloseStop \/ CloseNotify) /\ UNCHANGED <<checkVars, mgrVars>>
  BY <1>1 DEF PoolStep, checkVars, mgrVars
<1>2. CASE (CheckBegin \/ CheckTake \/ CheckDrop \/ CheckEnd) /\ UNCHANGED mgrVars
  BY <1>2
<1>3. CASE CheckPing
  BY <1>3 DEF CheckPing
<1>4. CASE (ClearConnections \/ DestroyCancel) /\ UNCHANGED mgrVars
  BY <1>4
<1>5. CASE CloseClear \/ Open
  BY <1>5
<1>6. ASSUME NEW t \in Clients, GiveBack(t)
      PROVE  ClientChange(t)
  BY <1>6 DEF GiveBack, checkVars
<1>7. ASSUME NEW t \in Clients,
             Get(t) \/ Write(t) \/ Pop(t) \/ HGet(t) \/ HDel(t) \/ Del(t) \/ ExistsKey(t)
      PROVE  UNCHANGED <<poolVars, checkVars>>
  BY <1>7 DEF Get, Write, Set, Push, LPush, RPush, HSet, HSetBytes, Pop, LPop, RPop,
              HGet, HDel, Del, ExistsKey, Command
<1>8. CASE UNCHANGED vars
  BY <1>8 DEF vars
<1> QED  BY <1>1, <1>2, <1>3, <1>4, <1>5, <1>6, <1>7, <1>8 DEF Next

-----------------------------------------------------------------------------
LEMMA ContextsFinite ==
    /\ Cardinality(Connections) \in Nat
    /\ \A S \in SUBSET Connections :
          /\ IsFiniteSet(S)
          /\ Cardinality(S) \in 0..Cardinality(Connections)
  BY FiniteAssumption, FS_Subset, FS_CardinalityType

LEMMA SmallSets == /\ Cardinality({}) = 0
                   /\ \A c : Cardinality({c}) = 1
  BY FS_EmptySet, FS_Singleton

LEMMA OneMoreOrLess ==
    ASSUME NEW S \in SUBSET Connections, NEW c
    PROVE  /\ Cardinality(S) \in Nat
           /\ Cardinality(S \union {c}) <= Cardinality(S) + 1
           /\ c \notin S => Cardinality(S \union {c}) = Cardinality(S) + 1
           /\ c \in S => Cardinality(S \ {c}) = Cardinality(S) - 1
<1>1. IsFiniteSet(S) /\ Cardinality(S) \in Nat
  BY ContextsFinite
<1>2. Cardinality(S \union {c}) = IF c \in S THEN Cardinality(S)
                                              ELSE Cardinality(S) + 1
  BY <1>1, FS_AddElement
<1>3. c \in S => Cardinality(S \ {c}) = Cardinality(S) - 1
  BY <1>1, FS_RemoveElement
<1> QED  BY <1>1, <1>2, <1>3

LEMMA InitIInv == Init => IInv
<1> SUFFICES ASSUME Init PROVE IInv
  OBVIOUS
<1> USE DEF Init, PoolInit, CheckInit
<1>1. TypeOK
  <2>1. PoolTypeOK
    BY DEF PoolTypeOK
  <2>2. i \in 0..Cardinality(Connections) /\ Cardinality(checked) <= 1
    BY ContextsFinite, SmallSets
  <2>3. mutex = Checker <=> check # "rest"
    BY DEF Free, Checker
  <2> QED  BY <2>1, <2>2, <2>3 DEF TypeOK
<1>2. ConnectionsPartitioned(checked)
  BY DEF ConnectionsPartitioned
<1>3. HandsInv /\ MutexInv /\ LoopInv /\ CloseInv
  BY ClientAssumption DEF HandsInv, MutexInv, LoopInv, CloseInv, Free, Checker
<1>4. StoreInv
  BY EmptySeq DEF StoreInv, ValueOK, Values, Missing
<1>5. MgrTypeOK
  BY MaxElementsAssumption DEF MgrTypeOK, Missing
<1> QED  BY <1>1, <1>2, <1>3, <1>4, <1>5 DEF IInv, PoolInv

LEMMA StepTypeOK ==
    ASSUME PoolInv, PoolChange
    PROVE  TypeOK'
<1> USE ClientAssumption
    DEF PoolInv, TypeOK, PoolTypeOK, HandsInv, MutexInv, checkVars, Free, Checker
<1>1. ASSUME NEW t \in Clients, getConnection(t), UNCHANGED checkVars
      PROVE  TypeOK'
  BY <1>1 DEF getConnection, Obtain
<1>2. ASSUME NEW t \in Clients, Sleep(t), UNCHANGED checkVars
      PROVE  TypeOK'
  BY <1>2 DEF Sleep
<1>3. ASSUME NEW t \in Clients, Resume(t), UNCHANGED checkVars
      PROVE  TypeOK'
  BY <1>3 DEF Resume, Woken, Obtain
<1>4. ASSUME NEW t \in Clients, returnConnection(t), UNCHANGED checkVars
      PROVE  TypeOK'
  <2>1. cond' \subseteq cond /\ t \notin cond
    BY <1>4 DEF returnConnection, NotifyOne
  <2>2. PoolTypeOK'
    BY <1>4, <2>1 DEF returnConnection
  <2> QED  BY <1>4, <2>2 DEF returnConnection
<1>5. ASSUME NEW t \in Clients, SpuriousReturn(t), UNCHANGED checkVars
      PROVE  TypeOK'
  BY <1>5 DEF SpuriousReturn
<1>6. CASE CheckBegin
  BY <1>6, ContextsFinite DEF CheckBegin
<1>7. CASE CheckTake
  <2>1. checked' \subseteq Connections /\ Cardinality(checked') <= 1
    <3>1. PICK c \in pool : checked' = {c}
      BY <1>7 DEF CheckTake
    <3>2. Cardinality(checked') = 1
      BY <3>1, SmallSets
    <3> QED  BY <3>1, <3>2
  <2>2. PoolTypeOK'
    BY <1>7 DEF CheckTake
  <2>3. i' \in 0..Cardinality(Connections)
    BY <1>7, ContextsFinite DEF CheckTake
  <2>4. check' = "ping" /\ timer' = timer /\ mutex' = Checker
    BY <1>7 DEF CheckTake
  <2> QED  BY <2>1, <2>2, <2>3, <2>4
<1>8. CASE CheckPut \/ CheckDrop
  BY <1>8, SmallSets DEF CheckPut, CheckDrop
<1>9. CASE CheckEnd
  BY <1>9, ContextsFinite DEF CheckEnd
<1>10. CASE (CloseStop \/ CloseNotify) /\ UNCHANGED checkVars
  BY <1>10 DEF CloseStop, CloseNotify
<1>11. CASE CloseClear \/ ClearConnections
  BY <1>11 DEF CloseClear, ClearConnections, Clear
<1>12. CASE DestroyCancel \/ Open
  BY <1>12 DEF DestroyCancel, Open, poolVars
<1>13. CASE UNCHANGED <<poolVars, checkVars>>
  BY <1>13 DEF poolVars
<1> QED
  BY <1>1, <1>2, <1>3, <1>4, <1>5, <1>6, <1>7, <1>8, <1>9, <1>10, <1>11, <1>12, <1>13
  DEF PoolChange, ClientChange, CheckChange, CloseChange

LEMMA StepPartitioned ==
    ASSUME PoolInv, PoolChange
    PROVE  ConnectionsPartitioned(checked)'
<1> USE DEF PoolInv, TypeOK, PoolTypeOK, HandsInv, MutexInv, CloseInv,
            ConnectionsPartitioned, checkVars
<1> DEFINE Goal == ConnectionsPartitioned(checked)'
<1>1. ASSUME NEW t \in Clients, getConnection(t) \/ Resume(t), UNCHANGED checkVars
      PROVE  Goal
  <2>1. con[t] = {}
    BY <1>1 DEF getConnection, Resume, Woken
  <2>2. Obtain(t) /\ UNCHANGED <<discarded, checked>>
    BY <1>1 DEF getConnection, Resume
  <2>3. CASE UNCHANGED <<pool, con>>
    BY <2>2, <2>3
  <2>4. CASE \E c \in pool : /\ pool' = pool \ {c}
                             /\ con' = [con EXCEPT ![t] = {c}]
    <3>1. PICK c \in pool : /\ pool' = pool \ {c}
                            /\ con' = [con EXCEPT ![t] = {c}]
      BY <2>4
    <3>2. con'[t] = {c} /\ \A u \in Clients \ {t} : con'[u] = con[u]
      BY <3>1
    <3> QED  BY <2>1, <2>2, <3>1, <3>2
  <2> QED  BY <2>2, <2>3, <2>4 DEF Obtain
<1>2. ASSUME NEW t \in Clients, Sleep(t) \/ SpuriousReturn(t), UNCHANGED checkVars
      PROVE  Goal
  BY <1>2 DEF Sleep, SpuriousReturn
<1>3. ASSUME NEW t \in Clients, returnConnection(t), UNCHANGED checkVars
      PROVE  Goal
  <2>1. con'[t] = {} /\ \A u \in Clients \ {t} : con'[u] = con[u]
    BY <1>3 DEF returnConnection
  <2>2. checked' = checked
    BY <1>3
  <2>3. CASE discarded' = discarded \union con[t] /\ pool' = pool
    BY <2>1, <2>2, <2>3
  <2>4. CASE pool' = pool \union con[t] /\ discarded' = discarded
    BY <2>1, <2>2, <2>4
  <2> QED  BY <1>3, <2>3, <2>4 DEF returnConnection
<1>4. CASE CheckBegin \/ CheckEnd
  BY <1>4 DEF CheckBegin, CheckEnd
<1>5. CASE CheckTake
  BY <1>5 DEF CheckTake
<1>6. CASE CheckPut
  BY <1>6 DEF CheckPut
<1>7. CASE CheckDrop
  BY <1>7 DEF CheckDrop
<1>8. CASE (CloseStop \/ CloseNotify) /\ UNCHANGED checkVars
  BY <1>8 DEF CloseStop, CloseNotify
<1>9. CASE CloseClear \/ ClearConnections
  BY <1>9 DEF CloseClear, ClearConnections, Clear
<1>10. CASE DestroyCancel
  BY <1>10 DEF DestroyCancel, poolVars
<1>11. CASE Open
  <2>1. \A t \in Clients : con[t] = {}
    BY <1>11 DEF Open
  <2> QED  BY <1>11, <2>1 DEF Open
<1>12. CASE UNCHANGED <<poolVars, checkVars>>
  BY <1>12 DEF poolVars
<1> QED
  BY <1>1, <1>2, <1>3, <1>4, <1>5, <1>6, <1>7, <1>8, <1>9, <1>10, <1>11, <1>12
  DEF PoolChange, ClientChange, CheckChange, CloseChange

LEMMA StepHandsInv ==
    ASSUME PoolInv, PoolChange
    PROVE  HandsInv'
<1> USE DEF PoolInv, TypeOK, PoolTypeOK, HandsInv, checkVars
<1>1. ASSUME NEW t \in Clients, getConnection(t) \/ Resume(t), UNCHANGED checkVars
      PROVE  HandsInv'
  <2>1. stage[t] # "using" /\ con[t] = {}
    BY <1>1 DEF getConnection, Resume, Woken
  <2> QED  BY <1>1, <2>1 DEF getConnection, Resume, Obtain
<1>2. ASSUME NEW t \in Clients, Sleep(t) \/ SpuriousReturn(t) \/ returnConnection(t),
             UNCHANGED checkVars
      PROVE  HandsInv'
  BY <1>2 DEF Sleep, SpuriousReturn, returnConnection
<1>3. CASE CheckChange
  BY <1>3 DEF CheckChange, CheckBegin, CheckTake, CheckPut, CheckDrop, CheckEnd
<1>4. CASE CloseChange
  BY <1>4 DEF CloseChange, CloseStop, CloseNotify, CloseClear, ClearConnections, Clear,
              DestroyCancel, Open, poolVars
<1>5. CASE UNCHANGED <<poolVars, checkVars>>
  BY <1>5 DEF poolVars
<1> QED  BY <1>1, <1>2, <1>3, <1>4, <1>5 DEF PoolChange, ClientChange

LEMMA StepMutexInv ==
    ASSUME PoolInv, PoolChange
    PROVE  MutexInv'
<1> USE ClientAssumption
    DEF PoolInv, TypeOK, PoolTypeOK, MutexInv, CloseInv, Free, Checker
<1>1. ASSUME NEW t \in Clients, getConnection(t) \/ Resume(t)
      PROVE  MutexInv'
  BY <1>1 DEF getConnection, Resume, Woken, Obtain
<1>2. ASSUME NEW t \in Clients, Sleep(t) \/ SpuriousReturn(t) \/ returnConnection(t)
      PROVE  MutexInv'
  BY <1>2 DEF Sleep, SpuriousReturn, returnConnection
<1>3. CASE CheckChange
  BY <1>3 DEF CheckChange, CheckBegin, CheckTake, CheckPut, CheckDrop, CheckEnd
<1>4. CASE CloseChange
  BY <1>4 DEF CloseChange, CloseStop, CloseNotify, CloseClear, ClearConnections, Clear,
              DestroyCancel, Open, poolVars
<1>5. CASE UNCHANGED <<poolVars, checkVars>>
  BY <1>5 DEF poolVars
<1> QED  BY <1>1, <1>2, <1>3, <1>4, <1>5 DEF PoolChange, ClientChange

(* While the check is under way it has the mutex and changes the queue     *)
(* alone.                                                                  *)
LEMMA StepLoopInv ==
    ASSUME PoolInv, PoolChange
    PROVE  LoopInv'
<1> USE ClientAssumption DEF PoolInv, TypeOK, PoolTypeOK, LoopInv, Free, Checker
<1>1. ASSUME NEW t \in Clients, ClientChange(t)
      PROVE  LoopInv'
  <2>1. CASE check = "rest"
    BY <1>1, <2>1 DEF ClientChange, checkVars
  <2>2. CASE check # "rest"
    <3>1. mutex \notin Clients /\ mutex # Free
      BY <2>2
    <3>2. ~Sleep(t)
      BY <3>1 DEF Sleep, MutexInv
    <3>3. SpuriousReturn(t)
      BY <1>1, <3>1, <3>2 DEF ClientChange, getConnection, Resume, returnConnection
    <3> QED  BY <1>1, <3>3 DEF ClientChange, SpuriousReturn, checkVars
  <2> QED  BY <2>1, <2>2
<1>2. CASE CheckBegin
  BY <1>2, ContextsFinite DEF CheckBegin
<1>3. CASE CheckTake
  <2>1. Cardinality(pool') = Cardinality(pool) - 1
    BY <1>3, OneMoreOrLess DEF CheckTake
  <2> QED  BY <1>3, <2>1, ContextsFinite DEF CheckTake
<1>4. CASE CheckPut
  <2>1. pool' = pool \union checked /\ pool' \subseteq Connections
    BY <1>4 DEF CheckPut
  <2>2. Cardinality(pool) <= Cardinality(pool')
    BY <2>1, ContextsFinite, FS_Subset
  <2>3. Cardinality(pool) \in Nat /\ Cardinality(pool') \in Nat
    BY <2>1, ContextsFinite
  <2> QED  BY <1>4, <2>2, <2>3, ContextsFinite DEF CheckPut
<1>5. CASE CheckDrop
  BY <1>5 DEF CheckDrop
<1>6. CASE CheckEnd
  BY <1>6 DEF CheckEnd
<1>7. CASE CloseChange
  BY <1>7 DEF CloseChange, CloseStop, CloseNotify, CloseClear, ClearConnections, Clear,
              DestroyCancel, Open, poolVars, checkVars
<1>8. CASE UNCHANGED <<poolVars, checkVars>>
  BY <1>8 DEF poolVars, checkVars
<1> QED
  BY <1>1, <1>2, <1>3, <1>4, <1>5, <1>6, <1>7, <1>8 DEF PoolChange, CheckChange

LEMMA StepCloseInv ==
    ASSUME PoolInv, PoolChange
    PROVE  CloseInv'
<1> USE ClientAssumption DEF PoolInv, TypeOK, PoolTypeOK, CloseInv, checkVars
<1>1. ASSUME NEW t \in Clients, getConnection(t) \/ Resume(t), UNCHANGED checkVars
      PROVE  CloseInv'
  <2>1. closer # "cleared"
    BY <1>1 DEF getConnection, Resume, Woken
  <2> QED  BY <1>1, <2>1 DEF getConnection, Resume
<1>2. ASSUME NEW t \in Clients, Sleep(t) \/ SpuriousReturn(t) \/ returnConnection(t),
             UNCHANGED checkVars
      PROVE  CloseInv'
  <2>1. closer # "cleared"
    BY <1>2 DEF Sleep, SpuriousReturn, returnConnection
  <2> QED  BY <1>2, <2>1 DEF Sleep, SpuriousReturn, returnConnection
<1>3. CASE CheckChange
  BY <1>3 DEF CheckChange, CheckBegin, CheckTake, CheckPut, CheckDrop, CheckEnd
<1>4. CASE (CloseStop \/ CloseNotify) /\ UNCHANGED checkVars
  BY <1>4 DEF CloseStop, CloseNotify
<1>5. CASE CloseClear \/ Open \/ DestroyCancel
  BY <1>5 DEF CloseClear, Open, DestroyCancel, poolVars
<1>6. CASE ClearConnections
  <2>1. checked = {}
    BY <1>6 DEF ClearConnections, Clear, HandsInv, Free, Checker
  <2> QED  BY <1>6, <2>1 DEF ClearConnections, Clear
<1>7. CASE UNCHANGED <<poolVars, checkVars>>
  BY <1>7 DEF poolVars
<1> QED
  BY <1>1, <1>2, <1>3, <1>4, <1>5, <1>6, <1>7 DEF PoolChange, ClientChange, CloseChange

LEMMA StepPoolInv == PoolInv /\ [Next]_vars => PoolInv'
  BY PoolView, StepTypeOK, StepPartitioned, StepHandsInv, StepMutexInv, StepLoopInv,
     StepCloseInv DEF PoolInv

LEMMA PoolInvHolds == Spec => []PoolInv
<1>1. Init => PoolInv
  BY InitIInv DEF IInv
<1> QED  BY <1>1, StepPoolInv, PTL DEF Spec

-----------------------------------------------------------------------------
(* What is announced.  The check's own context counts as free: it goes     *)
(* back without a notification.                                            *)
Announced ==
    (cond # {} /\ ~b_stop)
        => Cardinality(pool) + Cardinality(checked) <= Cardinality(WokenClients)

LEMMA Counts ==
    ASSUME TypeOK
    PROVE  /\ Cardinality(pool) \in Nat
           /\ Cardinality(checked) \in 0..1
           /\ Cardinality(WokenClients) \in Nat /\ IsFiniteSet(WokenClients)
<1>1. Cardinality(checked) \in Nat /\ Cardinality(pool) \in Nat
  BY ContextsFinite DEF TypeOK, PoolTypeOK
<1>2. Cardinality(checked) \in 0..1
  BY <1>1 DEF TypeOK
<1>3. WokenClients \in SUBSET Clients
  BY DEF WokenClients
<1> QED  BY <1>1, <1>2, <1>3, FiniteAssumption, FS_Subset, FS_CardinalityType

LEMMA CountsNext ==
    ASSUME TypeOK'
    PROVE  /\ Cardinality(pool') \in Nat
           /\ Cardinality(checked') \in 0..1
           /\ Cardinality(WokenClients') \in Nat
<1>1. Cardinality(checked') \in Nat /\ Cardinality(pool') \in Nat
  BY ContextsFinite DEF TypeOK, PoolTypeOK
<1>2. Cardinality(checked') \in 0..1
  BY <1>1 DEF TypeOK
<1>3. WokenClients' \in SUBSET Clients
  BY DEF WokenClients
<1> QED  BY <1>1, <1>2, <1>3, FiniteAssumption, FS_Subset, FS_CardinalityType

(* Who is woken is one more, and who goes on is one less.                  *)
LEMMA WokenChanges ==
    ASSUME TypeOK, NEW t
    PROVE  /\ t \notin WokenClients =>
                 Cardinality(WokenClients \union {t}) = Cardinality(WokenClients) + 1
           /\ t \in WokenClients =>
                 Cardinality(WokenClients \ {t}) = Cardinality(WokenClients) - 1
  BY Counts, FS_AddElement, FS_RemoveElement

LEMMA StepAnnounced ==
    ASSUME PoolInv, PoolChange, Announced
    PROVE  Announced'
<1>0. TypeOK /\ PoolTypeOK /\ TypeOK'
  BY StepTypeOK DEF PoolInv, TypeOK
<1>c. /\ Cardinality(pool) \in Nat /\ Cardinality(pool') \in Nat
      /\ Cardinality(checked) \in 0..1 /\ Cardinality(checked') \in 0..1
      /\ Cardinality(WokenClients) \in Nat /\ Cardinality(WokenClients') \in Nat
      /\ Cardinality({}) = 0
  BY <1>0, Counts, CountsNext, SmallSets
<1> SUFFICES ASSUME cond' # {}, ~b_stop'
             PROVE  Cardinality(pool') + Cardinality(checked')
                        <= Cardinality(WokenClients')
  BY DEF Announced
<1> DEFINE Before == Cardinality(pool) + Cardinality(checked) <= Cardinality(WokenClients)
           Goal   == Cardinality(pool') + Cardinality(checked')
                         <= Cardinality(WokenClients')
<1>b. ASSUME UNCHANGED b_stop, cond # {}
      PROVE  Before
  BY <1>b DEF Announced
<1>1. ASSUME NEW t \in Clients, getConnection(t), UNCHANGED checkVars
      PROVE  Goal
  <2>1. UNCHANGED <<cond, b_stop, checked>> /\ stage[t] = "idle"
    BY <1>1 DEF getConnection, checkVars
  <2>2. WokenClients' = WokenClients
    BY <1>0, <1>1, <2>1 DEF getConnection, Obtain, WokenClients, Woken, PoolTypeOK
  <2>3. pool' = pool \/ \E c \in pool : pool' = pool \ {c}
    BY <1>1 DEF getConnection, Obtain
  <2>4. Cardinality(pool') <= Cardinality(pool)
    BY <1>0, <1>c, <2>3, OneMoreOrLess DEF PoolTypeOK
  <2> QED  BY <1>b, <1>c, <2>1, <2>2, <2>4
<1>2. ASSUME NEW t \in Clients, Sleep(t), UNCHANGED checkVars
      PROVE  Goal
  <2>1. pool' = {} /\ checked' = {}
    BY <1>2, ClientAssumption
    DEF Sleep, PoolInv, TypeOK, HandsInv, MutexInv, checkVars, Checker
  <2> QED  BY <2>1, <1>c
<1>3. ASSUME NEW t \in Clients, Resume(t), UNCHANGED checkVars
      PROVE  Goal
  <2>1. /\ UNCHANGED <<cond, b_stop, checked>> /\ t \in WokenClients
        /\ checked = {}
    BY <1>3 DEF Resume, Woken, WokenClients, checkVars, PoolInv, TypeOK, HandsInv, Free,
                Checker
  <2>2. WokenClients' = WokenClients \ {t}
    BY <1>0, <1>3, <2>1 DEF Resume, Obtain, WokenClients, Woken, PoolTypeOK
  <2>3. Cardinality(WokenClients') = Cardinality(WokenClients) - 1
    BY <1>0, <2>1, <2>2, WokenChanges
  <2>4. CASE pool' = {}
    BY <2>1, <2>4, <1>c
  <2>5. CASE \E c \in pool : pool' = pool \ {c}
    <3>1. Cardinality(pool') = Cardinality(pool) - 1
      BY <1>0, <2>5, OneMoreOrLess DEF PoolTypeOK
    <3> QED  BY <1>b, <1>c, <2>1, <2>3, <3>1
  <2> QED  BY <1>3, <2>1, <2>4, <2>5 DEF Resume, Obtain
<1>4. ASSUME NEW t \in Clients, returnConnection(t), UNCHANGED checkVars
      PROVE  Goal
  <2>1. UNCHANGED <<b_stop, checked>> /\ ~b_stop /\ stage[t] = "using"
    BY <1>4 DEF returnConnection, checkVars
  <2>2. pool' = pool \union con[t] /\ NotifyOne
    BY <1>4, <2>1 DEF returnConnection
  <2>3. PICK u \in cond : cond' = cond \ {u}
    BY <2>2 DEF NotifyOne
  <2>4. WokenClients' = WokenClients \union {u} /\ u \notin WokenClients
    BY <1>0, <1>4, <2>3 DEF returnConnection, WokenClients, Woken, PoolTypeOK
  <2>5. Cardinality(WokenClients') = Cardinality(WokenClients) + 1
    BY <1>0, <2>4, WokenChanges
  <2>6. PICK c \in Connections : con[t] = {c}
    BY <2>1 DEF PoolInv, HandsInv
  <2>7. Cardinality(pool') <= Cardinality(pool) + 1
    BY <1>0, <2>2, <2>6, OneMoreOrLess DEF PoolTypeOK
  <2> QED  BY <1>b, <1>c, <2>1, <2>3, <2>5, <2>7
<1>5. ASSUME NEW t \in Clients, SpuriousReturn(t), UNCHANGED checkVars
      PROVE  Goal
  <2>1. UNCHANGED <<pool, b_stop, checked>> /\ t \in cond
    BY <1>5 DEF SpuriousReturn, checkVars
  <2>2. WokenClients' = WokenClients \union {t} /\ t \notin WokenClients
    BY <1>0, <1>5 DEF SpuriousReturn, WokenClients, Woken, PoolTypeOK
  <2>3. Cardinality(WokenClients') = Cardinality(WokenClients) + 1
    BY <1>0, <2>2, WokenChanges
  <2> QED  BY <1>b, <1>c, <2>1, <2>3
<1>6. CASE CheckTake
  <2>1. UNCHANGED <<cond, b_stop, stage>> /\ checked = {}
    BY <1>6 DEF CheckTake, PoolInv, HandsInv
  <2>2. WokenClients' = WokenClients
    BY <2>1 DEF WokenClients, Woken
  <2>3. PICK c \in pool : pool' = pool \ {c} /\ checked' = {c}
    BY <1>6 DEF CheckTake
  <2>4. Cardinality(pool') = Cardinality(pool) - 1 /\ Cardinality(checked') = 1
    BY <1>0, <2>3, OneMoreOrLess, SmallSets DEF PoolTypeOK
  <2> QED  BY <1>b, <1>c, <2>1, <2>2, <2>4
<1>7. CASE CheckPut
  <2>1. /\ UNCHANGED <<cond, b_stop, stage>>
        /\ pool' = pool \union checked /\ checked' = {}
    BY <1>7 DEF CheckPut
  <2>2. WokenClients' = WokenClients
    BY <2>1 DEF WokenClients, Woken
  <2>3. IsFiniteSet(pool) /\ IsFiniteSet(checked)
    BY <1>0, ContextsFinite DEF TypeOK, PoolTypeOK
  <2>4. /\ Cardinality(pool \union checked)
               = Cardinality(pool) + Cardinality(checked)
                     - Cardinality(pool \intersect checked)
        /\ Cardinality(pool \intersect checked) \in Nat
    BY <2>3, FS_Union, FS_Intersection, FS_CardinalityType
  <2> QED  BY <1>b, <1>c, <2>1, <2>2, <2>4
<1>8. CASE CheckDrop
  <2>1. UNCHANGED <<cond, b_stop, stage, pool>> /\ checked' = {}
    BY <1>8 DEF CheckDrop
  <2>2. WokenClients' = WokenClients
    BY <2>1 DEF WokenClients, Woken
  <2> QED  BY <1>b, <1>c, <2>1, <2>2
<1>9. CASE CheckBegin \/ CheckEnd \/ DestroyCancel \/ UNCHANGED <<poolVars, checkVars>>
  <2>1. UNCHANGED <<pool, cond, b_stop, stage, checked>>
    BY <1>9 DEF CheckBegin, CheckEnd, DestroyCancel, poolVars, checkVars
  <2>2. WokenClients' = WokenClients
    BY <2>1 DEF WokenClients, Woken
  <2> QED  BY <1>b, <2>1, <2>2
<1>10. CASE CloseStop \/ CloseNotify
  BY <1>10 DEF CloseStop, CloseNotify
<1>11. CASE CloseClear
  BY <1>11 DEF CloseClear, PoolInv, CloseInv
<1>12. CASE ClearConnections \/ Open
  <2>1. cond' = cond /\ \A t \in Clients : stage[t] = "idle"
    BY <1>12 DEF ClearConnections, Clear, Open, PoolInv, CloseInv
  <2> QED  BY <1>0, <2>1 DEF PoolTypeOK
<1> QED
  BY <1>1, <1>2, <1>3, <1>4, <1>5, <1>6, <1>7, <1>8, <1>9, <1>10, <1>11, <1>12
  DEF PoolChange, ClientChange, CheckChange, CloseChange

(* However many clients share how many contexts, and whatever becomes of   *)
(* the check: a sleeping client of an open pool is never forgotten.        *)
THEOREM SleepersMissNoContext == Spec => []EveryFreeContextIsAnnounced
<1>1. Init => Announced
  BY DEF Init, PoolInit, Announced
<1>2. PoolInv /\ Announced /\ [Next]_vars => Announced'
  BY PoolView, StepAnnounced
<1>3. PoolInv /\ Announced => EveryFreeContextIsAnnounced
  <2> SUFFICES ASSUME PoolInv, Announced, cond # {}, ~b_stop
               PROVE  Cardinality(pool) <= Cardinality(WokenClients)
    BY DEF EveryFreeContextIsAnnounced
  <2> QED  BY Counts DEF Announced, PoolInv
<1> QED  BY <1>1, <1>2, <1>3, PoolInvHolds, PTL DEF Spec

-----------------------------------------------------------------------------
(* The server.  Its case distinction, command by command.                  *)
Commands == {"GET", "SET", "LPUSH", "LPOP", "RPUSH", "RPOP", "HSET", "HGET", "HDEL",
             "DEL", "EXISTS"}

LEMMA NoneIsMissing == StoreInv => (store = Missing <=> store.kind = "none")
  BY DEF StoreInv, ValueOK, Values, Missing

OfKind(kind) == store.kind \in {"none", kind}
Refusal      == <<Reply("error"), store>>

LEMMA ServeScalars ==
    ASSUME StoreInv
    PROVE  /\ Serve("SET") = <<Reply("status"), Holding("string", <<next>>)>>
           /\ Serve("DEL") = <<Integer(IF store = Missing THEN 0 ELSE 1), Missing>>
           /\ Serve("EXISTS") = <<Integer(IF store = Missing THEN 0 ELSE 1), store>>
  BY DEF Serve, KindOf

LEMMA ServeReads ==
    ASSUME StoreInv, NEW cmd \in {"GET", "HGET"}
    PROVE  Serve(cmd) = IF OfKind(KindOf[cmd])
                        THEN <<Reply(IF store = Missing THEN "nil" ELSE "string"), store>>
                        ELSE Refusal
  BY NoneIsMissing DEF Serve, KindOf, OfKind, Refusal

LEMMA ServePushes ==
    ASSUME StoreInv
    PROVE  /\ Serve("LPUSH") = IF OfKind("list")
                               THEN <<Integer(Len(store.items) + 1),
                                      Holding("list", <<next>> \o store.items)>>
                               ELSE Refusal
           /\ Serve("RPUSH") = IF OfKind("list")
                               THEN <<Integer(Len(store.items) + 1),
                                      Holding("list", store.items \o <<next>>)>>
                               ELSE Refusal
  BY NoneIsMissing DEF Serve, KindOf, OfKind, Refusal

LEMMA ServePops ==
    ASSUME StoreInv
    PROVE  /\ Serve("LPOP") = IF store = Missing THEN <<Reply("nil"), store>>
                              ELSE IF store.kind = "list"
                              THEN <<Reply("string"), Holding("list", Tail(store.items))>>
                              ELSE Refusal
           /\ Serve("RPOP") = IF store = Missing THEN <<Reply("nil"), store>>
                              ELSE IF store.kind = "list"
                              THEN <<Reply("string"),
                                     Holding("list", SubSeq(store.items, 1,
                                                            Len(store.items) - 1))>>
                              ELSE Refusal
  BY NoneIsMissing DEF Serve, KindOf, OfKind, Refusal

LEMMA ServeHashes ==
    ASSUME StoreInv
    PROVE  /\ Serve("HSET") = IF OfKind("hash")
                              THEN <<Integer(IF store = Missing THEN 1 ELSE 0),
                                     Holding("hash", <<next>>)>>
                              ELSE Refusal
           /\ Serve("HDEL") = IF OfKind("hash")
                              THEN <<Integer(IF store = Missing THEN 0 ELSE 1), Missing>>
                              ELSE Refusal
  BY NoneIsMissing DEF Serve, KindOf, OfKind, Refusal

(* What is left behind is a value of the right kind, or none.              *)
LEMMA HoldingOK ==
    ASSUME NEW kind \in {"string", "list", "hash"}, NEW items \in Seq(1..MaxElements)
    PROVE  ValueOK(Holding(kind, items))
  BY EmptySeq DEF ValueOK, Values, Holding, Missing

LEMMA FrontOfSeq ==
    ASSUME NEW S, NEW s \in Seq(S), s # <<>>
    PROVE  SubSeq(s, 1, Len(s) - 1) \in Seq(S) /\ Len(SubSeq(s, 1, Len(s) - 1)) = Len(s) - 1
<1> DEFINE n == Len(s) - 1
<1>1. n \in 0..Len(s) /\ n \in Nat
  BY EmptySeq, LenProperties
<1> HIDE DEF n
<1>2. SubSeq(s, 1, n) \in Seq(S)
  BY <1>1
<1>3. Len(SubSeq(s, 1, n)) = n
  BY <1>1, SMT
<1> QED  BY <1>2, <1>3 DEF n

LEMMA ServedValue ==
    ASSUME StoreInv, NEW cmd \in Commands, cmd \in Writes => next \in 1..MaxElements
    PROVE  ValueOK(Serve(cmd)[2])
<1>1. store \in Values /\ store.items \in Seq(1..MaxElements)
  BY DEF StoreInv, ValueOK, Values
<1>2. ValueOK(Missing) /\ ValueOK(store)
  BY EmptySeq DEF ValueOK, Values, Missing, StoreInv
<1>3. cmd \in Writes => <<next>> \in Seq(1..MaxElements)
  OBVIOUS
<1>4. CASE cmd \in {"GET", "HGET", "DEL", "EXISTS"}
  BY <1>2, <1>4, ServeReads, ServeScalars DEF Refusal
<1>5. CASE cmd = "SET"
  <2>1. Serve(cmd)[2] = Holding("string", <<next>>)
    BY <1>5, ServeScalars
  <2> QED  BY <1>3, <1>5, <2>1, HoldingOK DEF Writes
<1>6. CASE cmd \in {"LPUSH", "RPUSH"}
  <2>1. <<next>> \in Seq(1..MaxElements)
    BY <1>3, <1>6 DEF Writes
  <2>2. /\ <<next>> \o store.items \in Seq(1..MaxElements)
        /\ store.items \o <<next>> \in Seq(1..MaxElements)
    BY <1>1, <2>1, ConcatProperties
  <2>3. /\ ValueOK(Holding("list", <<next>> \o store.items))
        /\ ValueOK(Holding("list", store.items \o <<next>>))
    BY <2>2, HoldingOK
  <2>4. Serve(cmd)[2] \in {store, Holding("list", <<next>> \o store.items),
                           Holding("list", store.items \o <<next>>)}
    BY <1>6, ServePushes DEF Refusal
  <2> QED  BY <1>2, <2>3, <2>4
<1>7. CASE cmd \in {"LPOP", "RPOP"}
  <2> DEFINE front == SubSeq(store.items, 1, Len(store.items) - 1)
  <2>1. CASE store.kind # "list"
    BY <1>2, <1>7, <2>1, ServePops DEF Refusal
  <2>2. CASE store.kind = "list"
    <3>1. store.items # <<>>
      BY <2>2 DEF StoreInv, ValueOK
    <3>2. Tail(store.items) \in Seq(1..MaxElements)
      BY <1>1, <3>1, HeadTailProperties
    <3>3. front \in Seq(1..MaxElements)
      BY <1>1, <3>1, FrontOfSeq
    <3>4. ValueOK(Holding("list", Tail(store.items))) /\ ValueOK(Holding("list", front))
      BY <3>2, <3>3, HoldingOK
    <3>5. Serve(cmd)[2] \in {store, Holding("list", Tail(store.items)),
                             Holding("list", front)}
      BY <1>7, ServePops DEF Refusal
    <3> QED  BY <1>2, <3>4, <3>5
  <2> QED  BY <2>1, <2>2
<1>8. CASE cmd = "HSET"
  <2>1. Serve(cmd)[2] \in {store, Holding("hash", <<next>>)}
    BY <1>8, ServeHashes DEF Refusal
  <2>2. ValueOK(Holding("hash", <<next>>))
    BY <1>3, <1>8, HoldingOK DEF Writes
  <2> QED  BY <1>2, <2>1, <2>2
<1>9. CASE cmd = "HDEL"
  BY <1>2, <1>9, ServeHashes DEF Refusal
<1> QED  BY <1>4, <1>5, <1>6, <1>7, <1>8, <1>9 DEF Commands

-----------------------------------------------------------------------------
(* The commands with the replies they take for success.                    *)
Decisions ==
    {<<"GET", OfType("string")>>, <<"SET", OfType("status")>>,
     <<"LPUSH", Positive>>, <<"RPUSH", Positive>>, <<"LPOP", NotNil>>, <<"RPOP", NotNil>>,
     <<"HSET", OfType("integer")>>, <<"HGET", NotNil>>, <<"HDEL", Positive>>,
     <<"DEL", OfType("integer")>>, <<"EXISTS", Positive>>}

LEMMA CommandsDecide ==
    ASSUME NEW t,
           Get(t) \/ Write(t) \/ Pop(t) \/ HGet(t) \/ HDel(t) \/ Del(t) \/ ExistsKey(t)
    PROVE  \E d \in Decisions : Command(t, d[1], d[2])
  BY DEF Get, Write, Set, Push, LPush, RPush, HSet, HSetBytes, Pop, LPop, RPop,
         HGet, HDel, Del, ExistsKey, Decisions

LEMMA GoodReplies ==
    ASSUME NEW d \in Decisions
    PROVE  d[1] \in Commands /\ Null \notin d[2]
  BY DEF Decisions, Commands, Null, Reply, OfType, Positive, NotNil

LEMMA StepMgrInv ==
    ASSUME IInv, [Next]_vars
    PROVE  (MgrTypeOK /\ StoreInv)'
<1> USE MaxElementsAssumption DEF IInv, MgrTypeOK
<1>1. ASSUME StoreInv'
      PROVE  /\ store'.kind \in {"none", "string", "list", "hash"}
             /\ \A n \in 1..Len(store'.items) : store'.items[n] \in 1..MaxElements
  BY <1>1, ElementOfSeq DEF StoreInv, ValueOK, Values
<1>2. ASSUME NEW t \in Clients,
             Get(t) \/ Write(t) \/ Pop(t) \/ HGet(t) \/ HDel(t) \/ Del(t) \/ ExistsKey(t)
      PROVE  (MgrTypeOK /\ StoreInv)'
  <2>1. PICK d \in Decisions : Command(t, d[1], d[2])
    BY <1>2, CommandsDecide
  <2>2. d[1] \in Commands
    BY GoodReplies
  <2>3. d[1] \in Writes => next \in 1..MaxElements
    BY <2>1 DEF Command
  <2>4. \E r \in Replies : Exchange(t, d[1], r)
    BY <2>1 DEF Command
  <2>5. StoreInv'
    <3>1. store' \in {store, Serve(d[1])[2]}
      BY <2>4 DEF Exchange
    <3> QED  BY <2>2, <2>3, <3>1, ServedValue DEF StoreInv
  <2>6. next' \in 1..(MaxElements + 1)
    BY <2>3, <2>4 DEF Exchange
  <2>7. broken' \subseteq Connections
    BY <2>4 DEF Exchange, PoolInv, TypeOK, PoolTypeOK
  <2>8. /\ stage[t] = "using" /\ stage' = stage
        /\ \E a \in {"true", "false"} : answer' = [answer EXCEPT ![t] = a]
    BY <2>1 DEF Command, poolVars
  <2>9. /\ answer' \in [Clients -> {"none", "true", "false"}]
        /\ \A u \in Clients : answer'[u] # "none" => stage'[u] = "using"
    BY <2>8
  <2> QED  BY <1>1, <2>5, <2>6, <2>7, <2>9
<1>3. ASSUME NEW t \in Clients, GiveBack(t)
      PROVE  (MgrTypeOK /\ StoreInv)'
  <2>1. /\ UNCHANGED <<store, next, broken>>
        /\ answer' = [answer EXCEPT ![t] = "none"]
        /\ \A u \in Clients \ {t} : stage'[u] = stage[u]
    BY <1>3 DEF GiveBack, returnConnection, PoolInv, TypeOK, PoolTypeOK
  <2> QED  BY <2>1 DEF StoreInv
<1>4. ASSUME UNCHANGED mgrVars, \A t \in Clients : stage[t] = "using" => stage'[t] = "using"
      PROVE  (MgrTypeOK /\ StoreInv)'
  BY <1>4 DEF mgrVars, StoreInv
<1>5. CASE (PoolStep \/ CloseStop \/ CloseNotify) /\ UNCHANGED <<checkVars, mgrVars>>
  <2>1. \A t \in Clients : stage[t] = "using" => stage'[t] = "using"
    BY <1>5 DEF PoolStep, getConnection, Sleep, Resume, Woken, SpuriousReturn, Obtain,
                CloseStop, CloseNotify, PoolInv, TypeOK, PoolTypeOK
  <2> QED  BY <1>4, <1>5, <2>1
<1>6. CASE (CheckBegin \/ CheckTake \/ CheckDrop \/ CheckEnd) /\ UNCHANGED mgrVars
  <2>1. stage' = stage
    BY <1>6 DEF CheckBegin, CheckTake, CheckDrop, CheckEnd
  <2> QED  BY <1>4, <1>6, <2>1
<1>7. CASE CheckPing
  BY <1>7 DEF CheckPing, CheckPut, StoreInv, PoolInv, TypeOK, PoolTypeOK
<1>8. CASE (ClearConnections \/ DestroyCancel) /\ UNCHANGED mgrVars
  <2>1. stage' = stage
    BY <1>8 DEF ClearConnections, Clear, DestroyCancel, poolVars
  <2> QED  BY <1>4, <1>8, <2>1
<1>9. CASE CloseClear
  BY <1>4, <1>9 DEF CloseClear
<1>10. CASE Open
  BY <1>10 DEF Open, StoreInv
<1>11. CASE UNCHANGED vars
  BY <1>4, <1>11 DEF vars, poolVars
<1> QED
  BY <1>2, <1>3, <1>5, <1>6, <1>7, <1>8, <1>9, <1>10, <1>11 DEF Next

LEMMA IInvHolds == Spec => []IInv
<1>1. IInv /\ [Next]_vars => IInv'
  BY StepPoolInv, StepMgrInv DEF IInv
<1> QED  BY <1>1, InitIInv, PTL DEF Spec

(* Whatever the replies and the check, no command keeps a context: outside *)
(* of commands no client has one, and none is lost, shared or doubled.     *)
THEOREM EveryPathGivesBack == Spec => []ContextsComeBack
<1>1. IInv => ContextsComeBack
  BY DEF IInv, PoolInv, ContextsComeBack, PoolIntact, CheckOwnsTheQueue, HandsInv,
         LoopInv, CloseInv
<1> QED  BY <1>1, IInvHolds, PTL

-----------------------------------------------------------------------------
(* What a caller is told.  A reply that a command does not take for a      *)
(* success left the server's value as it was.                              *)
LEMMA GoodOrNoEffect ==
    ASSUME StoreInv, NEW d \in Decisions, Serve(d[1])[1] \in Replies \ d[2]
    PROVE  Serve(d[1])[2] = store
<1> USE DEF Decisions, OfType, Positive, NotNil, Integer, Reply, Refusal
<1>1. CASE d[1] \in {"GET", "HGET"}
  BY <1>1, ServeReads
<1>2. CASE d[1] = "SET" \/ d[1] = "DEL" \/ d[1] = "EXISTS"
  BY <1>2, ServeScalars
<1>3. CASE d[1] \in {"LPUSH", "RPUSH"}
  <2>1. Len(store.items) \in Nat
    BY LenProperties DEF StoreInv, ValueOK, Values
  <2> QED  BY <1>3, <2>1, ServePushes
<1>4. CASE d[1] \in {"LPOP", "RPOP"}
  BY <1>4, ServePops
<1>5. CASE d[1] = "HSET" \/ d[1] = "HDEL"
  BY <1>5, ServeHashes
<1> QED  BY <1>1, <1>2, <1>3, <1>4, <1>5

(* A command that succeeded has the server's reply and its effect; one     *)
(* that failed has lost its connection, or was refused without an effect.  *)
LEMMA Decided ==
    ASSUME IInv, NEW t \in Clients, NEW d \in Decisions, Command(t, d[1], d[2])
    PROVE  /\ answer'[t] = "true" => /\ con[t] \intersect broken' = {}
                                     /\ Serve(d[1])[1] \in d[2]
                                     /\ store' = Serve(d[1])[2]
           /\ answer'[t] # "true" => \/ con[t] \intersect broken' # {}
                                     \/ Serve(d[1])[1] \notin d[2] /\ store' = store
           /\ con[t] \intersect broken' = {} => Serve(d[1])[1] \in Replies
<1>1. PICK r \in Replies :
          /\ Exchange(t, d[1], r)
          /\ answer' = [answer EXCEPT ![t] = IF r \in d[2] THEN "true" ELSE "false"]
  BY DEF Command
<1>2. answer'[t] = IF r \in d[2] THEN "true" ELSE "false"
  BY <1>1 DEF IInv, MgrTypeOK
<1>3. PICK c \in Connections : con[t] = {c}
  BY DEF Command, IInv, PoolInv, HandsInv
<1>4. Null \notin d[2]
  BY GoodReplies
<1>5. CASE r = Serve(d[1])[1] /\ store' = Serve(d[1])[2] /\ UNCHANGED broken
           /\ con[t] \intersect broken = {}
  BY <1>2, <1>5, GoodOrNoEffect DEF IInv
<1>6. CASE r = Null /\ broken' = broken \union con[t]
  BY <1>2, <1>3, <1>4, <1>6
<1>7. CASE r = Null /\ con[t] \subseteq broken /\ broken' = broken
  BY <1>2, <1>3, <1>4, <1>7
<1> QED  BY <1>1, <1>5, <1>6, <1>7 DEF Exchange

(* An answer comes from a command of the client it is for.                 *)
LEMMA WhoAnswers ==
    ASSUME IInv, Next, NEW t \in Clients, answer'[t] # answer[t], answer'[t] # "none"
    PROVE  \E d \in Decisions : Command(t, d[1], d[2])
<1>1. answer' # answer
  OBVIOUS
<1>2. ~\E u \in Clients : GiveBack(u)
  BY DEF GiveBack, IInv, MgrTypeOK
<1>3. PICK u \in Clients : \/ Get(u) \/ Write(u) \/ Pop(u) \/ HGet(u) \/ HDel(u)
                           \/ Del(u) \/ ExistsKey(u)
  BY <1>1, <1>2 DEF Next, mgrVars, CheckPing, CloseClear, Open
<1>4. PICK d \in Decisions : Command(u, d[1], d[2])
  BY <1>3, CommandsDecide
<1>5. u = t
  BY <1>4 DEF Command, IInv, MgrTypeOK
<1> QED  BY <1>4, <1>5

(* What each command tells, in the words of AnswerIsTrue.                  *)
LEMMA ScalarAnswers ==
    ASSUME IInv, NEW t \in Clients, con[t] \intersect broken' = {}
    PROVE  /\ Set(t) => /\ answer'[t] = "true"
                        /\ store' = [kind |-> "string", items |-> <<next>>]
           /\ Del(t) => answer'[t] = "true" /\ store' = Missing
           /\ ExistsKey(t) => IF answer'[t] = "true" THEN store # Missing
                                                     ELSE store = Missing
<1> USE DEF Decisions, Integer, Reply
<1>0. StoreInv
  BY DEF IInv
<1>1. ASSUME Set(t)
      PROVE  answer'[t] = "true" /\ store' = [kind |-> "string", items |-> <<next>>]
  <2>1. Serve("SET")[1] \in OfType("status")
    BY <1>0, ServeScalars DEF OfType, Replies
  <2>2. answer'[t] = "true" /\ store' = Serve("SET")[2]
    BY <1>1, <2>1, Decided DEF Set
  <2>3. <<next>> # <<>>
    OBVIOUS
  <2> QED  BY <1>0, <2>2, <2>3, ServeScalars DEF Holding
<1>2. ASSUME Del(t) PROVE answer'[t] = "true" /\ store' = Missing
  <2>1. Serve("DEL")[1] \in OfType("integer")
    <3>1. 0 \in 0..(MaxElements + 1) /\ 1 \in 0..(MaxElements + 1)
      BY MaxElementsAssumption
    <3> QED  BY <1>0, <3>1, ServeScalars DEF OfType, Replies
  <2>2. answer'[t] = "true" /\ store' = Serve("DEL")[2]
    BY <1>2, <2>1, Decided DEF Del
  <2> QED  BY <1>0, <2>2, ServeScalars
<1>3. ASSUME ExistsKey(t)
      PROVE  IF answer'[t] = "true" THEN store # Missing ELSE store = Missing
  <2>1. answer'[t] = "true" <=> Serve("EXISTS")[1] \in Positive
    BY <1>3, Decided DEF ExistsKey
  <2>2. Serve("EXISTS")[1] \in Positive <=> store # Missing
    BY <1>0, MaxElementsAssumption, ServeScalars DEF Positive, OfType, Replies
  <2> QED  BY <2>1, <2>2
<1> QED  BY <1>1, <1>2, <1>3

LEMMA ReadAnswers ==
    ASSUME IInv, NEW t \in Clients, con[t] \intersect broken' = {}
    PROVE  /\ Get(t) => IF answer'[t] = "true" THEN store.kind = "string" /\ store' = store
                                               ELSE store.kind # "string"
           /\ HGet(t) => IF answer'[t] = "true" THEN store # Missing /\ store' = store
                                                ELSE store = Missing
<1> USE DEF Decisions, Reply, Refusal, OfKind, KindOf
<1>0. StoreInv
  BY DEF IInv
<1>1. ASSUME Get(t)
      PROVE  IF answer'[t] = "true" THEN store.kind = "string" /\ store' = store
                                    ELSE store.kind # "string"
  <2>1. /\ answer'[t] = "true" <=> Serve("GET")[1] \in OfType("string")
        /\ answer'[t] = "true" => store' = Serve("GET")[2]
    BY <1>1, Decided DEF Get
  <2>2. /\ Serve("GET")[1] \in OfType("string") <=> store.kind = "string"
        /\ Serve("GET")[2] = store
    BY <1>0, ServeReads, NoneIsMissing DEF OfType, Replies
  <2> QED  BY <2>1, <2>2
<1>2. ASSUME HGet(t)
      PROVE  IF answer'[t] = "true" THEN store # Missing /\ store' = store
                                    ELSE store = Missing
  <2>1. /\ answer'[t] = "true" <=> Serve("HGET")[1] \in NotNil
        /\ answer'[t] = "true" => store' = Serve("HGET")[2]
    BY <1>2, Decided DEF HGet
  <2>2. /\ Serve("HGET")[1] \in NotNil <=> store # Missing
        /\ Serve("HGET")[2] = store
    BY <1>0, ServeReads, NoneIsMissing DEF NotNil, OfType, Replies
  <2> QED  BY <2>1, <2>2
<1> QED  BY <1>1, <1>2

LEMMA AddAnswers ==
    ASSUME IInv, NEW t \in Clients, con[t] \intersect broken' = {}
    PROVE  /\ LPush(t) => IF answer'[t] = "true" THEN Added("list", <<next>> \o store.items)
                                                 ELSE Other("list")
           /\ RPush(t) => IF answer'[t] = "true" THEN Added("list", store.items \o <<next>>)
                                                 ELSE Other("list")
           /\ HSet(t) \/ HSetBytes(t) => IF answer'[t] = "true" THEN Added("hash", <<next>>)
                                                                ELSE Other("hash")
<1> USE DEF Decisions, Integer, Reply, Refusal, OfKind, Added, Other
<1>0. /\ StoreInv /\ store.items \in Seq(1..MaxElements) /\ Len(store.items) \in Nat
      /\ next \in Nat
  BY LenProperties DEF IInv, StoreInv, ValueOK, Values, MgrTypeOK
<1>1. /\ <<next>> \o store.items # <<>> /\ store.items \o <<next>> # <<>> /\ <<next>> # <<>>
  BY <1>0, EmptySeq
<1>2. ASSUME NEW cmd \in {"LPUSH", "RPUSH"}, Command(t, cmd, Positive),
             NEW items, items # <<>>,
             Serve(cmd) = IF OfKind("list")
                          THEN <<Integer(Len(store.items) + 1), Holding("list", items)>>
                          ELSE Refusal
      PROVE  IF answer'[t] = "true" THEN Added("list", items) ELSE Other("list")
  <2>1. /\ answer'[t] = "true" => Serve(cmd)[1] \in Positive /\ store' = Serve(cmd)[2]
        /\ answer'[t] # "true" => Serve(cmd)[1] \notin Positive
    BY <1>2, Decided
  <2>2. CASE OfKind("list")
    <3>1. Serve(cmd)[2] = [kind |-> "list", items |-> items]
      BY <1>2, <2>2 DEF Holding
    <3>2. Serve(cmd)[1] \in Positive
      <4>1. Serve(cmd)[1] \in Replies
        BY <1>2, Decided
      <4>2. Serve(cmd)[1] = Integer(Len(store.items) + 1)
        BY <1>2, <2>2
      <4> QED  BY <1>0, <4>1, <4>2 DEF Positive, OfType
    <3> QED  BY <2>1, <2>2, <3>1, <3>2
  <2>3. CASE ~OfKind("list")
    BY <1>2, <2>1, <2>3 DEF Positive, OfType
  <2> QED  BY <2>2, <2>3
<1>3. ASSUME Command(t, "HSET", OfType("integer"))
      PROVE  IF answer'[t] = "true" THEN Added("hash", <<next>>) ELSE Other("hash")
  <2>1. /\ answer'[t] = "true" => Serve("HSET")[1] \in OfType("integer")
                                  /\ store' = Serve("HSET")[2]
        /\ answer'[t] # "true" => Serve("HSET")[1] \notin OfType("integer")
    BY <1>3, Decided
  <2>2. CASE OfKind("hash")
    <3>1. Serve("HSET")[2] = [kind |-> "hash", items |-> <<next>>]
      BY <1>0, <1>1, <2>2, ServeHashes DEF Holding
    <3>2. Serve("HSET")[1] \in OfType("integer")
      <4>1. 0 \in 0..(MaxElements + 1) /\ 1 \in 0..(MaxElements + 1)
        BY MaxElementsAssumption
      <4> QED  BY <1>0, <2>2, <4>1, ServeHashes DEF OfType, Replies
    <3> QED  BY <2>1, <2>2, <3>1, <3>2
  <2>3. CASE ~OfKind("hash")
    BY <1>0, <2>1, <2>3, ServeHashes DEF OfType
  <2> QED  BY <2>2, <2>3
<1>4. LPush(t) => IF answer'[t] = "true" THEN Added("list", <<next>> \o store.items)
                                         ELSE Other("list")
  BY <1>0, <1>1, <1>2, ServePushes DEF LPush
<1>5. RPush(t) => IF answer'[t] = "true" THEN Added("list", store.items \o <<next>>)
                                         ELSE Other("list")
  BY <1>0, <1>1, <1>2, ServePushes DEF RPush
<1> QED  BY <1>3, <1>4, <1>5 DEF HSet, HSetBytes

LEMMA TakeAnswers ==
    ASSUME IInv, NEW t \in Clients, con[t] \intersect broken' = {}
    PROVE  /\ LPop(t) => IF answer'[t] = "true" THEN Took(Tail(store.items))
                                                ELSE store = Missing
           /\ RPop(t) => IF answer'[t] = "true" THEN Took(AllButLast(store.items))
                                                ELSE store = Missing
           /\ HDel(t) => IF answer'[t] = "true" THEN store.kind = "hash" /\ store' = Missing
                                                ELSE store.kind # "hash"
<1> USE DEF Decisions, Integer, Reply, Refusal
<1>0. StoreInv /\ (store = Missing <=> store.kind = "none")
  BY NoneIsMissing DEF IInv
<1>1. \A items : Holding("list", items).items = items
  BY DEF Holding, Missing
<1>2. ASSUME NEW cmd \in {"LPOP", "RPOP"}, Command(t, cmd, NotNil), NEW others,
             Serve(cmd) = IF store = Missing THEN <<Reply("nil"), store>>
                          ELSE IF store.kind = "list"
                          THEN <<Reply("string"), Holding("list", others)>>
                          ELSE Refusal
      PROVE  IF answer'[t] = "true" THEN Took(others) ELSE store = Missing
  <2>1. /\ answer'[t] = "true" => Serve(cmd)[1] \in NotNil /\ store' = Serve(cmd)[2]
        /\ answer'[t] # "true" => Serve(cmd)[1] \notin NotNil
    BY <1>2, Decided
  <2>2. Serve(cmd)[1] \in NotNil <=> store # Missing
    BY <1>2 DEF NotNil, OfType, Replies
  <2>3. store # Missing => store'.items = others \/ store.kind # "list" \/ answer'[t] # "true"
    BY <1>1, <1>2, <2>1
  <2>4. store # Missing /\ store.kind # "list" /\ answer'[t] = "true" => store' = store
    BY <1>2, <2>1
  <2> QED  BY <2>1, <2>2, <2>3, <2>4 DEF Took
<1>3. ASSUME HDel(t)
      PROVE  IF answer'[t] = "true" THEN store.kind = "hash" /\ store' = Missing
                                    ELSE store.kind # "hash"
  <2>1. /\ answer'[t] = "true" => Serve("HDEL")[1] \in Positive /\ store' = Serve("HDEL")[2]
        /\ answer'[t] # "true" => Serve("HDEL")[1] \notin Positive
    BY <1>3, Decided DEF HDel
  <2>2. Serve("HDEL")[1] \in Positive <=> store.kind = "hash"
    BY <1>0, MaxElementsAssumption, ServeHashes DEF OfKind, Positive, OfType, Replies
  <2>3. store.kind = "hash" => Serve("HDEL")[2] = Missing
    BY <1>0, ServeHashes DEF OfKind
  <2> QED  BY <2>1, <2>2, <2>3
<1>4. LPop(t) => IF answer'[t] = "true" THEN Took(Tail(store.items)) ELSE store = Missing
  BY <1>0, <1>2, ServePops DEF LPop
<1>5. RPop(t) => IF answer'[t] = "true" THEN Took(AllButLast(store.items))
                                        ELSE store = Missing
  BY <1>0, <1>2, ServePops DEF RPop, AllButLast
<1> QED  BY <1>3, <1>4, <1>5

LEMMA StepAnswers ==
    ASSUME IInv, Next, NEW t \in Clients, answer[t] = "none", answer'[t] # "none"
    PROVE  AnswerIsTrue(t)
<1>1. /\ con[t] \intersect broken' # {} => answer'[t] # "true"
      /\ con[t] \intersect broken' = {} /\ answer'[t] # "true" => store' = store
  BY WhoAnswers, Decided
<1> QED
  BY <1>1, ScalarAnswers, ReadAnswers, AddAnswers, TakeAnswers DEF AnswerIsTrue

(* Whoever else runs in between, what each command tells its caller is     *)
(* what it did: of all twelve, on every path, for any number of clients.   *)
THEOREM CallersAreToldTheTruth == Spec => AnswersAreTrue
<1>1. ASSUME IInv, [Next]_vars
      PROVE  [\A t \in Clients : answer[t] = "none" /\ answer'[t] # "none"
                                     => AnswerIsTrue(t)]_vars
  BY <1>1, StepAnswers
<1> QED  BY <1>1, IInvHolds, PTL DEF Spec, AnswersAreTrue
=============================================================================
