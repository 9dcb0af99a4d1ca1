----------------------- MODULE PoolAndTransferProofs -----------------------
(***************************************************************************)
(* Proofs about MySqlPool, for any finite sets of clients and connections, *)
(* and about UdpTransfer, for any senders, messages, number of group_ids,  *)
(* duplicates and restarts.  The two share nothing.                        *)
(***************************************************************************)
EXTENDS MySqlPool, UdpTransfer, FiniteSetTheorems, SequenceTheorems, TLAPS

-----------------------------------------------------------------------------
(* MySqlPool.  The inductive invariant: PoolIntact, and where connections  *)
(* and the mutex can be.                                                   *)

(* A connection is in the hands of a client that uses it or of a check     *)
(* that pings it, and of nobody else.                                      *)
HandsInv ==
    /\ \A t \in Clients : stage[t] # "using" => con[t] = {}
    /\ check \in {"rest", "loop", "take"} => checked = {}

(* The mutex is held over two steps only from a client's test of the       *)
(* predicate to its sleep.                                                 *)
MutexInv ==
    /\ mutex # Checker
    /\ \A t \in Clients : stage[t] = "test" <=> mutex = t

(* After Close's notify_all nobody begins to wait, so whoever sleeps then  *)
(* or is about to is the one client that held the mutex at that time.      *)
CloseInv ==
    /\ closer # "open" => b_stop
    /\ closer \notin {"open", "stopped"} =>
          \A t, u \in Clients :
              (t \in cond \/ stage[t] = "test") /\ (u \in cond \/ stage[u] = "test")
                  => t = u

Partitioned == ConnectionsPartitioned(checked) /\ (discarded # {} => b_stop)

PoolIInv == MySqlTypeOK /\ Partitioned /\ HandsInv /\ MutexInv /\ CloseInv

-----------------------------------------------------------------------------
LEMMA ConnectionsFinite ==
    /\ Cardinality(Connections) \in Nat
    /\ \A S \in SUBSET Connections :
          /\ IsFiniteSet(S)
          /\ Cardinality(S) \in 0..Cardinality(Connections)
  BY FiniteAssumption, FS_Subset, FS_CardinalityType

LEMMA SmallSets == /\ Cardinality({}) = 0
                   /\ \A c : Cardinality({c}) = 1
  BY FS_EmptySet, FS_Singleton

LEMMA InitPoolIInv == MySqlInit => PoolIInv
<1> SUFFICES ASSUME MySqlInit PROVE PoolIInv
  OBVIOUS
<1> USE DEF MySqlInit, PoolInit
<1>1. MySqlTypeOK
  <2>1. PoolTypeOK
    BY DEF PoolTypeOK
  <2>2. poolSize \in 0..Cardinality(Connections) /\ Cardinality(checked) <= 1
    BY ConnectionsFinite, SmallSets
  <2> QED  BY <2>1, <2>2 DEF MySqlTypeOK
<1>2. Partitioned
  BY DEF Partitioned, ConnectionsPartitioned
<1>3. HandsInv /\ MutexInv /\ CloseInv
  BY ClientAssumption DEF HandsInv, MutexInv, CloseInv, Free, Checker
<1> QED  BY <1>1, <1>2, <1>3 DEF PoolIInv

(* One step per action; Step names what MySqlNext offers.                  *)
LEMMA StepTypeOK ==
    ASSUME PoolIInv, [MySqlNext]_mySqlVars
    PROVE  MySqlTypeOK'
<1> USE DEF PoolIInv, MySqlTypeOK, PoolTypeOK, HandsInv, MutexInv
<1>1. ASSUME NEW t \in Clients, getConnection(t), UNCHANGED checkVars
      PROVE  MySqlTypeOK'
  BY <1>1 DEF getConnection, Obtain, checkVars
<1>2. ASSUME NEW t \in Clients, Sleep(t), UNCHANGED checkVars
      PROVE  MySqlTypeOK'
  BY <1>2 DEF Sleep, checkVars
<1>3. ASSUME NEW t \in Clients, Resume(t), UNCHANGED checkVars
      PROVE  MySqlTypeOK'
  BY <1>3 DEF Resume, Woken, Obtain, checkVars
<1>4. ASSUME NEW t \in Clients, returnConnection(t), UNCHANGED checkVars
      PROVE  MySqlTypeOK'
  BY <1>4 DEF returnConnection, NotifyOne, checkVars
<1>5. ASSUME NEW t \in Clients, SpuriousReturn(t), UNCHANGED checkVars
      PROVE  MySqlTypeOK'
  BY <1>5 DEF SpuriousReturn, checkVars
<1>6. CASE (CloseStop \/ CloseNotify) /\ UNCHANGED checkVars
  BY <1>6 DEF CloseStop, CloseNotify, checkVars
<1>7. CASE CheckBegin
  BY <1>7, ConnectionsFinite DEF CheckBegin, poolVars
<1>8. CASE CheckLoop
  BY <1>8, ConnectionsFinite DEF CheckLoop, poolVars
<1>9. CASE CheckTake
  <2>1. poolSize' \in 0..Cardinality(Connections)
    BY <1>9, ConnectionsFinite DEF CheckTake
  <2>2. checked' \subseteq Connections /\ Cardinality(checked') <= 1
    <3>1. checked' = {} \/ \E c \in pool : checked' = {c}
      BY <1>9 DEF CheckTake
    <3>2. Cardinality(checked') \in {0, 1}
      BY <3>1, SmallSets
    <3> QED  BY <3>1, <3>2
  <2>3. PoolTypeOK'
    BY <1>9 DEF CheckTake
  <2>4. check' \in {"rest", "ping"} /\ timer' = timer
    BY <1>9 DEF CheckTake
  <2> QED  BY <2>1, <2>2, <2>3, <2>4
<1>10. CASE CheckPing \/ CheckThrow
  BY <1>10 DEF CheckPing, CheckThrow, poolVars
<1>11. CASE CheckPut
  BY <1>11, SmallSets DEF CheckPut
<1>12. CASE CloseCancel
  BY <1>12 DEF CloseCancel
<1>13. CASE ClearPool
  BY <1>13 DEF ClearPool, Clear, checkVars
<1>14. CASE UNCHANGED mySqlVars
  BY <1>14 DEF mySqlVars, poolVars, checkVars
<1> QED
  BY <1>1, <1>2, <1>3, <1>4, <1>5, <1>6, <1>7, <1>8, <1>9, <1>10, <1>11, <1>12,
     <1>13, <1>14 DEF MySqlNext, PoolNext, ClientStep, CheckStep

LEMMA StepPartitioned ==
    ASSUME PoolIInv, [MySqlNext]_mySqlVars
    PROVE  Partitioned'
<1> USE DEF PoolIInv, MySqlTypeOK, PoolTypeOK, HandsInv, MutexInv, CloseInv, Partitioned,
            ConnectionsPartitioned
<1>1. ASSUME NEW t \in Clients, getConnection(t) \/ Resume(t), UNCHANGED checkVars
      PROVE  Partitioned'
  <2>1. con[t] = {} /\ stage[t] # "using"
    BY <1>1 DEF getConnection, Resume, Woken
  <2>2. Obtain(t) /\ UNCHANGED <<b_stop, discarded, checked>>
    BY <1>1 DEF getConnection, Resume, checkVars
  <2>3. CASE UNCHANGED <<pool, con>>
    BY <2>2, <2>3
  <2>4. CASE \E c \in pool : /\ pool' = pool \ {c}
                             /\ con' = [con EXCEPT ![t] = {c}]
    <3>1. PICK c \in pool : /\ pool' = pool \ {c}
                            /\ con' = [con EXCEPT ![t] = {c}]
      BY <2>4
    <3>2. con'[t] = {c} /\ \A u \in Clients \ {t} : con'[u] = con[u]
      BY <3>1
    <3> QED  BY <2>1, <2>2, <3>1, <3>2
  <2> QED  BY <2>2, <2>3, <2>4 DEF Obtain
<1>2. ASSUME NEW t \in Clients, Sleep(t) \/ SpuriousReturn(t), UNCHANGED checkVars
      PROVE  Partitioned'
  BY <1>2 DEF Sleep, SpuriousReturn, checkVars
<1>3. ASSUME NEW t \in Clients, returnConnection(t), UNCHANGED checkVars
      PROVE  Partitioned'
  <2>1. con'[t] = {} /\ \A u \in Clients \ {t} : con'[u] = con[u]
    BY <1>3 DEF returnConnection
  <2>2. b_stop' = b_stop /\ checked' = checked
    BY <1>3 DEF returnConnection, checkVars
  <2>3. CASE b_stop /\ discarded' = discarded \union con[t] /\ pool' = pool
    BY <2>1, <2>2, <2>3
  <2>4. CASE pool' = pool \union con[t] /\ discarded' = discarded
    BY <2>1, <2>2, <2>4
  <2> QED  BY <1>3, <2>3, <2>4 DEF returnConnection
<1>4. CASE (CloseStop \/ CloseNotify) /\ UNCHANGED checkVars
  BY <1>4 DEF CloseStop, CloseNotify, checkVars
<1>5. CASE CheckBegin \/ CheckLoop \/ CheckPing \/ CheckThrow
  BY <1>5 DEF CheckBegin, CheckLoop, CheckPing, CheckThrow, poolVars
<1>6. CASE CheckTake
  BY <1>6 DEF CheckTake
<1>7. CASE CheckPut
  BY <1>7 DEF CheckPut
<1>8. CASE CloseCancel
  BY <1>8 DEF CloseCancel
<1>9. CASE ClearPool
  BY <1>9 DEF ClearPool, Clear, checkVars
<1>10. CASE UNCHANGED mySqlVars
  BY <1>10 DEF mySqlVars, poolVars, checkVars
<1> QED
  BY <1>1, <1>2, <1>3, <1>4, <1>5, <1>6, <1>7, <1>8, <1>9, <1>10
  DEF MySqlNext, PoolNext, ClientStep, CheckStep

LEMMA StepHandsInv ==
    ASSUME PoolIInv, [MySqlNext]_mySqlVars
    PROVE  HandsInv'
<1> USE DEF PoolIInv, MySqlTypeOK, PoolTypeOK, HandsInv
<1>1. ASSUME NEW t \in Clients, getConnection(t) \/ Resume(t), UNCHANGED checkVars
      PROVE  HandsInv'
  BY <1>1 DEF getConnection, Resume, Woken, Obtain, checkVars
<1>2. ASSUME NEW t \in Clients,
             Sleep(t) \/ SpuriousReturn(t) \/ returnConnection(t),
             UNCHANGED checkVars
      PROVE  HandsInv'
  BY <1>2 DEF Sleep, SpuriousReturn, returnConnection, checkVars
<1>3. CASE (CloseStop \/ CloseNotify) /\ UNCHANGED checkVars
  BY <1>3 DEF CloseStop, CloseNotify, checkVars
<1>4. CASE CheckBegin \/ CheckStep
  BY <1>4 DEF CheckBegin, CheckStep, CheckLoop, CheckTake, CheckPing, CheckThrow,
              CheckPut, poolVars
<1>5. CASE CloseCancel \/ ClearPool
  BY <1>5 DEF CloseCancel, ClearPool, Clear, checkVars
<1>6. CASE UNCHANGED mySqlVars
  BY <1>6 DEF mySqlVars, poolVars, checkVars
<1> QED
  BY <1>1, <1>2, <1>3, <1>4, <1>5, <1>6 DEF MySqlNext, PoolNext, ClientStep

LEMMA StepMutexInv ==
    ASSUME PoolIInv, [MySqlNext]_mySqlVars
    PROVE  MutexInv'
<1> USE ClientAssumption DEF PoolIInv, MySqlTypeOK, PoolTypeOK, MutexInv, Free, Checker
<1>1. ASSUME NEW t \in Clients, getConnection(t) \/ Resume(t)
      PROVE  MutexInv'
  BY <1>1 DEF getConnection, Resume, Woken, Obtain
<1>2. ASSUME NEW t \in Clients,
             Sleep(t) \/ SpuriousReturn(t) \/ returnConnection(t)
      PROVE  MutexInv'
  BY <1>2 DEF Sleep, SpuriousReturn, returnConnection
<1>3. CASE UNCHANGED <<mutex, stage>>
  BY <1>3
<1>4. CASE CloseStop \/ CloseNotify \/ CheckBegin \/ CheckStep \/ CloseCancel
           \/ ClearPool \/ UNCHANGED mySqlVars
  <2>1. UNCHANGED <<mutex, stage>>
    BY <1>4 DEF CloseStop, CloseNotify, CheckBegin, CheckStep, CheckLoop, CheckTake,
                CheckPing, CheckThrow, CheckPut, CloseCancel, ClearPool, Clear,
                mySqlVars, poolVars
  <2> QED  BY <2>1, <1>3
<1> QED  BY <1>1, <1>2, <1>4 DEF MySqlNext, PoolNext, ClientStep

LEMMA StepCloseInv ==
    ASSUME PoolIInv, [MySqlNext]_mySqlVars
    PROVE  CloseInv'
<1> USE DEF PoolIInv, MySqlTypeOK, PoolTypeOK, MutexInv, CloseInv
<1>1. ASSUME NEW t \in Clients, getConnection(t) \/ Resume(t)
      PROVE  CloseInv'
  BY <1>1 DEF getConnection, Resume, Woken, Obtain
<1>2. ASSUME NEW t \in Clients, Sleep(t)
      PROVE  CloseInv'
  BY <1>2 DEF Sleep
<1>3. ASSUME NEW t \in Clients, SpuriousReturn(t) \/ returnConnection(t)
      PROVE  CloseInv'
  BY <1>3 DEF SpuriousReturn, returnConnection, NotifyOne
<1>4. CASE CloseStop
  BY <1>4 DEF CloseStop
<1>5. CASE CloseNotify
  BY <1>5 DEF CloseNotify
<1>6. CASE CloseCancel
  BY <1>6 DEF CloseCancel
<1>7. CASE ClearPool
  BY <1>7 DEF ClearPool, Clear
<1>8. CASE CheckBegin \/ CheckStep \/ UNCHANGED mySqlVars
  <2>1. UNCHANGED <<b_stop, closer, cond, stage>>
    BY <1>8 DEF CheckBegin, CheckStep, CheckLoop, CheckTake, CheckPing, CheckThrow,
                CheckPut, mySqlVars, poolVars
  <2> QED  BY <2>1
<1> QED
  BY <1>1, <1>2, <1>3, <1>4, <1>5, <1>6, <1>7, <1>8
  DEF MySqlNext, PoolNext, ClientStep

LEMMA PoolIInvHolds == MySqlSpec => []PoolIInv
<1>1. PoolIInv /\ [MySqlNext]_mySqlVars => PoolIInv'
  BY StepTypeOK, StepPartitioned, StepHandsInv, StepMutexInv, StepCloseInv DEF PoolIInv
<1> QED  BY <1>1, InitPoolIInv, PTL DEF MySqlSpec

(* No connection of the pool is ever lost, shared or put back twice.       *)
THEOREM ConnectionsStayIntact == MySqlSpec => []PoolIntact
<1>1. PoolIInv => PoolIntact
  BY DEF PoolIInv, Partitioned, PoolIntact
<1> QED  BY <1>1, PoolIInvHolds, PTL

(* However many clients there are, Close leaves at most one asleep.        *)
THEOREM CloseMissesAtMostOne == MySqlSpec => []AtMostOneMissesClose
<1>1. PoolIInv => AtMostOneMissesClose
  BY DEF PoolIInv, MySqlTypeOK, PoolTypeOK, CloseInv, AtMostOneMissesClose
<1> QED  BY <1>1, PoolIInvHolds, PTL

-----------------------------------------------------------------------------
(* What a sleeper can miss.  Besides the types the argument needs that a   *)
(* client holds one connection at most, and that the pool is still empty   *)
(* when a client that found it so goes to sleep.                           *)
WaitInv ==
    /\ \A t \in Clients : con[t] = {} \/ \E c \in Connections : con[t] = {c}
    /\ \A t \in Clients : stage[t] = "test" => pool = {}

LEMMA StepWaitInv ==
    ASSUME PoolIInv, WaitInv, [MySqlNext]_mySqlVars
    PROVE  WaitInv'
<1> USE DEF PoolIInv, MySqlTypeOK, PoolTypeOK, MutexInv, WaitInv
<1> USE ClientAssumption DEF Free, Checker
<1>1. ASSUME NEW t \in Clients, getConnection(t) \/ Resume(t)
      PROVE  WaitInv'
  BY <1>1 DEF getConnection, Resume, Woken, Obtain
<1>2. ASSUME NEW t \in Clients, Sleep(t) \/ SpuriousReturn(t) \/ returnConnection(t)
      PROVE  WaitInv'
  BY <1>2 DEF Sleep, SpuriousReturn, returnConnection
<1>3. CASE CheckTake \/ CheckPut \/ ClearPool
  BY <1>3 DEF CheckTake, CheckPut, ClearPool, Clear
<1>4. CASE CloseStop \/ CloseNotify \/ CheckBegin \/ CheckLoop \/ CheckPing
           \/ CheckThrow \/ CloseCancel \/ UNCHANGED mySqlVars
  <2>1. UNCHANGED <<pool, con, stage>>
    BY <1>4 DEF CloseStop, CloseNotify, CheckBegin, CheckLoop, CheckPing,
                CheckThrow, CloseCancel, mySqlVars, poolVars
  <2> QED  BY <2>1
<1> QED  BY <1>1, <1>2, <1>3, <1>4 DEF MySqlNext, PoolNext, ClientStep, CheckStep

LEMMA InitWaitInv == MySqlInit => WaitInv
  BY DEF MySqlInit, PoolInit, WaitInv

(* The counts of the property are natural numbers, before a step and after.*)
LEMMA PoolCounts ==
    ASSUME MySqlTypeOK, MySqlTypeOK'
    PROVE  /\ Cardinality(pool) \in Nat /\ Cardinality(pool') \in Nat
           /\ Cardinality(checked) \in 0..1 /\ Cardinality(checked') \in 0..1
           /\ Cardinality(WokenClients) \in Nat
           /\ Cardinality(WokenClients') \in Nat
<1>1. Cardinality(checked) \in Nat /\ Cardinality(checked') \in Nat
  BY ConnectionsFinite DEF MySqlTypeOK
<1>2. Cardinality(checked) \in 0..1 /\ Cardinality(checked') \in 0..1
  BY <1>1 DEF MySqlTypeOK
<1>3. Cardinality(pool) \in Nat /\ Cardinality(pool') \in Nat
  BY ConnectionsFinite DEF MySqlTypeOK, PoolTypeOK
<1>4. WokenClients \in SUBSET Clients /\ WokenClients' \in SUBSET Clients
  BY DEF WokenClients
<1> QED
  BY <1>2, <1>3, <1>4, FiniteAssumption, FS_Subset, FS_CardinalityType

LEMMA AddOne ==
    ASSUME NEW S, IsFiniteSet(S), NEW x
    PROVE  /\ Cardinality(S \union {x}) <= Cardinality(S) + 1
           /\ x \notin S => Cardinality(S \union {x}) = Cardinality(S) + 1
           /\ x \in S => Cardinality(S \ {x}) = Cardinality(S) - 1
<1>1. Cardinality(S) \in Nat
  BY FS_CardinalityType
<1>2. Cardinality(S \union {x}) = IF x \in S THEN Cardinality(S)
                                              ELSE Cardinality(S) + 1
  BY FS_AddElement
<1>3. x \in S => Cardinality(S \ {x}) = Cardinality(S) - 1
  BY FS_RemoveElement
<1> QED  BY <1>1, <1>2, <1>3

LEMMA WokenFinite == IsFiniteSet(WokenClients)
  BY FiniteAssumption, FS_Subset DEF WokenClients

LEMMA StepAtMostOneUnannounced ==
    ASSUME PoolIInv, WaitInv, [MySqlNext]_mySqlVars, AtMostOneUnannounced
    PROVE  AtMostOneUnannounced'
<1>0. MySqlTypeOK /\ PoolTypeOK /\ MySqlTypeOK'
  BY StepTypeOK DEF PoolIInv, MySqlTypeOK
<1>c. /\ Cardinality(pool) \in Nat /\ Cardinality(pool') \in Nat
      /\ Cardinality(checked) \in 0..1 /\ Cardinality(checked') \in 0..1
      /\ Cardinality(WokenClients) \in Nat /\ Cardinality(WokenClients') \in Nat
  BY <1>0, PoolCounts
<1>f. IsFiniteSet(pool)
  BY <1>0, ConnectionsFinite DEF PoolTypeOK
<1>e. Cardinality({}) = 0
  BY SmallSets
<1> SUFFICES ASSUME cond' # {}, ~b_stop'
             PROVE  Cardinality(pool') + Cardinality(checked')
                        <= Cardinality(WokenClients') + 1
  BY DEF AtMostOneUnannounced
<1> DEFINE Goal == Cardinality(pool') + Cardinality(checked')
                       <= Cardinality(WokenClients') + 1
<1>1. ASSUME NEW t \in Clients, getConnection(t), UNCHANGED checkVars
      PROVE  Goal
  <2>1. UNCHANGED <<cond, b_stop, checked>> /\ stage[t] = "idle"
    BY <1>1 DEF getConnection, checkVars
  <2>2. WokenClients' = WokenClients
    BY <1>0, <1>1, <2>1 DEF getConnection, Obtain, WokenClients, Woken, PoolTypeOK
  <2>3. pool' = pool \/ \E c \in pool : pool' = pool \ {c}
    BY <1>1 DEF getConnection, Obtain
  <2>4. Cardinality(pool') <= Cardinality(pool)
    BY <2>3, <1>c, <1>f, AddOne
  <2>5. Cardinality(pool) + Cardinality(checked) <= Cardinality(WokenClients) + 1
    BY <2>1 DEF AtMostOneUnannounced
  <2> QED  BY <2>1, <2>2, <2>4, <2>5, <1>c
<1>2. ASSUME NEW t \in Clients, Sleep(t), UNCHANGED checkVars
      PROVE  Goal
  <2>1. pool' = {}
    BY <1>2 DEF Sleep, WaitInv
  <2> QED  BY <2>1, <1>c, <1>e
<1>3. ASSUME NEW t \in Clients, Resume(t), UNCHANGED checkVars
      PROVE  Goal
  <2>1. UNCHANGED <<cond, b_stop, checked>> /\ t \in WokenClients
    BY <1>3 DEF Resume, Woken, WokenClients, checkVars
  <2>2. WokenClients' = WokenClients \ {t}
    BY <1>0, <1>3, <2>1 DEF Resume, Obtain, WokenClients, Woken, PoolTypeOK
  <2>3. Cardinality(WokenClients') = Cardinality(WokenClients) - 1
    BY <2>1, <2>2, WokenFinite, AddOne
  <2>4. CASE pool' = {}
    BY <2>4, <1>c, <1>e
  <2>5. CASE \E c \in pool : pool' = pool \ {c}
    <3>1. Cardinality(pool') = Cardinality(pool) - 1
      BY <2>5, <1>f, AddOne
    <3>2. Cardinality(pool) + Cardinality(checked) <= Cardinality(WokenClients) + 1
      BY <2>1 DEF AtMostOneUnannounced
    <3> QED  BY <2>1, <2>3, <3>1, <3>2, <1>c
  <2> QED  BY <1>3, <2>1, <2>4, <2>5 DEF Resume, Obtain
<1>4. ASSUME NEW t \in Clients, returnConnection(t), UNCHANGED checkVars
      PROVE  Goal
  <2>1. UNCHANGED <<b_stop, checked>> /\ ~b_stop
    BY <1>4 DEF returnConnection, checkVars
  <2>2. pool' = pool \union con[t] /\ NotifyOne
    BY <1>4, <2>1 DEF returnConnection
  <2>3. PICK u \in cond : cond' = cond \ {u}
    BY <2>2 DEF NotifyOne
  <2>4. /\ WokenClients' = WokenClients \union {u}
        /\ u \notin WokenClients
    BY <1>0, <1>4, <2>3 DEF returnConnection, WokenClients, Woken, PoolTypeOK
  <2>5. Cardinality(WokenClients') = Cardinality(WokenClients) + 1
    BY <2>4, WokenFinite, AddOne
  <2>6. pool' = pool \/ \E c : pool' = pool \union {c}
    BY <2>2 DEF WaitInv
  <2>7. Cardinality(pool') <= Cardinality(pool) + 1
    <3>1. CASE pool' = pool
      BY <3>1, <1>c
    <3>2. CASE \E c : pool' = pool \union {c}
      <4>1. PICK c : pool' = pool \union {c}
        BY <3>2
      <4> QED  BY <4>1, <1>f, AddOne
    <3> QED  BY <2>6, <3>1, <3>2
  <2>8. Cardinality(pool) + Cardinality(checked) <= Cardinality(WokenClients) + 1
    BY <2>1, <2>3 DEF AtMostOneUnannounced
  <2> QED  BY <2>1, <2>5, <2>7, <2>8, <1>c
<1>5. ASSUME NEW t \in Clients, SpuriousReturn(t), UNCHANGED checkVars
      PROVE  Goal
  <2>1. UNCHANGED <<pool, b_stop, checked>> /\ t \in cond
    BY <1>5 DEF SpuriousReturn, checkVars
  <2>2. WokenClients' = WokenClients \union {t} /\ t \notin WokenClients
    BY <1>0, <1>5 DEF SpuriousReturn, WokenClients, Woken, PoolTypeOK
  <2>3. Cardinality(WokenClients') = Cardinality(WokenClients) + 1
    BY <2>2, WokenFinite, AddOne
  <2>4. Cardinality(pool) + Cardinality(checked) <= Cardinality(WokenClients) + 1
    BY <2>1 DEF AtMostOneUnannounced
  <2> QED  BY <2>1, <2>3, <2>4, <1>c
<1>6. CASE CloseStop \/ CloseNotify
  BY <1>6 DEF CloseStop, CloseNotify
<1>7. CASE CheckTake
  <2>1. UNCHANGED <<cond, b_stop, stage>> /\ checked = {}
    BY <1>7 DEF CheckTake, PoolIInv, HandsInv
  <2>2. WokenClients' = WokenClients
    BY <2>1 DEF WokenClients, Woken
  <2>3. Cardinality(pool) + Cardinality(checked) <= Cardinality(WokenClients) + 1
    BY <2>1 DEF AtMostOneUnannounced
  <2>4. CASE UNCHANGED <<pool, checked>>
    BY <2>2, <2>3, <2>4
  <2>5. CASE \E c \in pool : pool' = pool \ {c} /\ checked' = {c}
    <3>1. Cardinality(pool') = Cardinality(pool) - 1
      BY <2>5, <1>f, AddOne
    <3>2. Cardinality(checked') = 1
      BY <2>5, SmallSets
    <3> QED  BY <2>1, <2>2, <2>3, <3>1, <3>2, <1>c, <1>e
  <2> QED  BY <1>7, <2>4, <2>5 DEF CheckTake
<1>8. CASE CheckPut
  <2>1. /\ UNCHANGED <<cond, b_stop, stage>>
        /\ pool' = pool \union checked /\ checked' = {}
    BY <1>8 DEF CheckPut
  <2>2. WokenClients' = WokenClients
    BY <2>1 DEF WokenClients, Woken
  <2>3. Cardinality(pool) + Cardinality(checked) <= Cardinality(WokenClients) + 1
    BY <2>1 DEF AtMostOneUnannounced
  <2>4. Cardinality(pool') <= Cardinality(pool) + Cardinality(checked)
    <3>1. IsFiniteSet(checked)
      BY <1>0, ConnectionsFinite DEF MySqlTypeOK
    <3>2. Cardinality(pool \union checked)
             = Cardinality(pool) + Cardinality(checked)
                   - Cardinality(pool \intersect checked)
      BY <3>1, <1>f, FS_Union
    <3>3. Cardinality(pool \intersect checked) \in Nat
      BY <1>f, FS_Intersection, FS_CardinalityType
    <3> QED  BY <2>1, <3>2, <3>3, <1>c
  <2> QED  BY <2>1, <2>2, <2>3, <2>4, <1>c, <1>e
<1>9. CASE CheckBegin \/ CheckLoop \/ CheckPing \/ CheckThrow \/ UNCHANGED mySqlVars
  <2>1. UNCHANGED <<pool, cond, b_stop, stage, checked>>
    BY <1>9
    DEF CheckBegin, CheckLoop, CheckPing, CheckThrow, mySqlVars, poolVars, checkVars
  <2>2. WokenClients' = WokenClients
    BY <2>1 DEF WokenClients, Woken
  <2> QED  BY <2>1, <2>2 DEF AtMostOneUnannounced
<1>10. CASE CloseCancel \/ ClearPool
  BY <1>10 DEF CloseCancel, ClearPool, Clear, PoolIInv, CloseInv
<1> QED
  BY <1>1, <1>2, <1>3, <1>4, <1>5, <1>6, <1>7, <1>8, <1>9, <1>10
  DEF MySqlNext, PoolNext, ClientStep, CheckStep

(* Whatever clients and check do, a sleeping client misses at most the one *)
(* connection that is in the hands of the check or was put back by it.     *)
THEOREM SleepersMissAtMostOne == MySqlSpec => []AtMostOneUnannounced
<1>1. MySqlInit => AtMostOneUnannounced
  BY DEF MySqlInit, PoolInit, AtMostOneUnannounced
<1>2. PoolIInv /\ WaitInv /\ [MySqlNext]_mySqlVars => WaitInv'
  BY StepWaitInv
<1>3. PoolIInv /\ WaitInv /\ AtMostOneUnannounced /\ [MySqlNext]_mySqlVars
          => AtMostOneUnannounced'
  BY StepAtMostOneUnannounced
<1> QED  BY <1>1, <1>2, <1>3, InitWaitInv, PoolIInvHolds, PTL DEF MySqlSpec

-----------------------------------------------------------------------------
(* UdpTransfer.                                                            *)
(* What a group holds was cut from messages; what was delivered is merged  *)
(* from such pieces.                                                       *)
Merged == UNION {[0..(n - 1) -> Messages] : n \in Nat}

PiecesInv ==
    /\ \A g \in DOMAIN m_groups :
          \A i \in DOMAIN m_groups[g].packets : m_groups[g].packets[i] \in Messages
    /\ delivered \in Seq(Merged)

(* While group_ids are unique, a group belongs to the one message that was *)
(* sent under its number, and all its pieces do.                           *)
Belongs(info, m) ==
    /\ info.total_packets = Packets[m]
    /\ \A i \in DOMAIN info.packets : info.packets[i] = m

GroupsInv ==
    UniqueGroupIds =>
        \A g \in DOMAIN m_groups : \A x \in sent :
            x.group_id = g => Belongs(m_groups[g], x.msg)

IInv == TypeOK /\ PiecesInv /\ GroupsInv /\ DeliveredIntact

LEMMA InitIInv == Init => IInv
<1> SUFFICES ASSUME Init PROVE IInv
  OBVIOUS
<1>0. DOMAIN m_groups = {}
  BY EmptySeq DEF Init
<1>1. TypeOK
  <2>1. lossy \in BOOLEAN
    BY DEF Init
  <2>2. group_id_ \in [Senders -> 0..(GroupIds - 1)]
    BY BoundsAssumption DEF Init
  <2>3. duplicates \in 0..MaxDuplicates /\ restarts \in 0..MaxRestarts
    BY BoundsAssumption DEF Init
  <2> QED  BY <1>0, <2>1, <2>2, <2>3 DEF Init, TypeOK
<1>2. PiecesInv
  BY <1>0, EmptySeq DEF Init, PiecesInv
<1>3. GroupsInv /\ DeliveredIntact
  BY <1>0, EmptySeq DEF Init, GroupsInv, DeliveredIntact, Range
<1> QED  BY <1>1, <1>2, <1>3 DEF IInv

(* A step that leaves the receiver alone and takes no message back keeps   *)
(* the parts of the invariant that are about the receiver.                 *)
LEMMA SenderStep ==
    ASSUME IInv, TypeOK', UNCHANGED receiverVars, sent \subseteq sent'
    PROVE  PiecesInv' /\ GroupsInv' /\ DeliveredIntact'
<1> USE DEF receiverVars
<1>1. PiecesInv'
  BY DEF IInv, PiecesInv
<1>2. UniqueGroupIds' => UniqueGroupIds
  BY DEF UniqueGroupIds
<1>3. DeliveredIntact'
  BY <1>2 DEF IInv, DeliveredIntact, Whole
<1>4. ASSUME UniqueGroupIds', NEW g \in DOMAIN m_groups, NEW x \in sent',
             x.group_id = g
      PROVE  Belongs(m_groups[g], x.msg)
  <2>1. PICK y \in sent : y.group_id = g
    BY DEF IInv, TypeOK
  <2>2. x.msg = y.msg
    BY <1>4, <2>1 DEF UniqueGroupIds
  <2> QED  BY <1>2, <1>4, <2>1, <2>2 DEF IInv, GroupsInv
<1>5. GroupsInv'
  BY <1>4 DEF GroupsInv, Belongs
<1> QED  BY <1>1, <1>3, <1>5

(* A datagram in flight is a fragment of a message that was sent.          *)
LEMMA InFlight ==
    ASSUME TypeOK, NEW p \in net
    PROVE  /\ [group_id |-> p.group_id, msg |-> p.msg] \in sent
           /\ p.msg \in Messages
           /\ p.total_packets = Packets[p.msg] /\ p.total_packets \in Nat
  BY PacketsAssumption DEF TypeOK

LEMMA PutPiece ==
    ASSUME NEW k, NEW v, NEW f
    PROVE  \A i \in DOMAIN Insert(f, k, v) :
              \/ Insert(f, k, v)[i] = v
              \/ i \in DOMAIN f /\ Insert(f, k, v)[i] = f[i]
  BY DEF Insert

(* What HandlePacket makes of the group of a datagram.                     *)
LEMMA StoredGroup ==
    ASSUME IInv, NEW p \in net
    PROVE  LET info == Stored(p)
           IN  /\ info.total_packets \in Nat
               /\ \E x \in sent : /\ x.group_id = p.group_id
                                 /\ info.total_packets = Packets[x.msg]
               /\ \A i \in DOMAIN info.packets : info.packets[i] \in Messages
               /\ UniqueGroupIds => Belongs(info, p.msg)
<1> DEFINE x == [group_id |-> p.group_id, msg |-> p.msg]
<1>0. /\ x \in sent /\ x.group_id = p.group_id /\ x.msg = p.msg
      /\ p.msg \in Messages
      /\ p.total_packets = Packets[x.msg] /\ p.total_packets \in Nat
  BY InFlight DEF IInv
<1> HIDE DEF x
<1>1. CASE p.group_id \notin DOMAIN m_groups
  <2>1. /\ Stored(p).total_packets = p.total_packets
        /\ Stored(p).packets = Insert(<<>>, p.packet_id, p.msg)
    BY <1>1 DEF Stored
  <2>2. \A i \in DOMAIN Stored(p).packets : Stored(p).packets[i] = p.msg
    BY <2>1, PutPiece, EmptySeq
  <2> QED  BY <1>0, <2>1, <2>2 DEF Belongs
<1>2. CASE p.group_id \in DOMAIN m_groups
  <2> DEFINE old == m_groups[p.group_id]
  <2>1. /\ Stored(p).total_packets = IF old.total_packets = 0 THEN p.total_packets
                                                             ELSE old.total_packets
        /\ Stored(p).packets = Insert(old.packets, p.packet_id, p.msg)
    BY <1>2 DEF Stored
  <2>2. PICK y \in sent : /\ y.group_id = p.group_id
                         /\ old.total_packets = Packets[y.msg]
    BY <1>2 DEF IInv, TypeOK
  <2>3. Packets[y.msg] \in Nat
    BY PacketsAssumption DEF IInv, TypeOK
  <2>4. \A i \in DOMAIN old.packets : old.packets[i] \in Messages
    BY <1>2 DEF IInv, PiecesInv
  <2>5. \A i \in DOMAIN Stored(p).packets :
            \/ Stored(p).packets[i] = p.msg
            \/ i \in DOMAIN old.packets /\ Stored(p).packets[i] = old.packets[i]
    BY <2>1, PutPiece
  <2>6. UniqueGroupIds => Belongs(old, p.msg)
    BY <1>0, <1>2 DEF IInv, GroupsInv
  <2> HIDE DEF old
  <2>7. UniqueGroupIds => Belongs(Stored(p), p.msg)
    BY <1>0, <2>1, <2>5, <2>6 DEF Belongs
  <2> QED  BY <1>0, <2>1, <2>2, <2>3, <2>4, <2>5, <2>7
<1> QED  BY <1>1, <1>2

-----------------------------------------------------------------------------
(* Types.                                                                  *)
Sending == [state : {"sending"}, group_id : 0..(GroupIds - 1), msg : Messages,
            next : Nat]

SendOK(snd, messages) ==
    snd # Idle => /\ [group_id |-> snd.group_id, msg |-> snd.msg] \in messages
                  /\ snd.next < Packets[snd.msg]

SendersOK == /\ sending \in [Senders -> {Idle} \union Sending]
             /\ \A s \in Senders : SendOK(sending[s], sent)

NetOK == \A p \in net : /\ [group_id |-> p.group_id, msg |-> p.msg] \in sent
                         /\ p.packet_id \in 0..(p.total_packets - 1)
                         /\ p.total_packets = Packets[p.msg]

GroupsOK ==
    /\ DOMAIN m_groups \subseteq {x.group_id : x \in sent}
    /\ \A g \in DOMAIN m_groups :
          \E x \in sent : /\ x.group_id = g
                         /\ m_groups[g].total_packets = Packets[x.msg]

RestOK == /\ group_id_ \in [Senders -> 0..(GroupIds - 1)]
          /\ sent \subseteq [group_id : 0..(GroupIds - 1), msg : Messages]
          /\ lossy \in BOOLEAN
          /\ duplicates \in 0..MaxDuplicates
          /\ restarts \in 0..MaxRestarts

LEMMA TypeParts == TypeOK <=> SendersOK /\ NetOK /\ GroupsOK /\ RestOK
  BY DEF TypeOK, SendersOK, SendOK, Sending, NetOK, GroupsOK, RestOK

LEMMA TypePartsNext == TypeOK' <=> SendersOK' /\ NetOK' /\ GroupsOK' /\ RestOK'
  BY DEF TypeOK, SendersOK, SendOK, Sending, NetOK, GroupsOK, RestOK

LEMMA SendType ==
    ASSUME TypeOK, NEW s \in Senders, NEW m \in Messages, Send(s, m)
    PROVE  TypeOK'
<1> DEFINE g == (group_id_[s] + 1) % GroupIds
<1>1. g \in 0..(GroupIds - 1)
  BY BoundsAssumption DEF TypeOK
<1>2. sent' = sent \union {[group_id |-> g, msg |-> m]}
  BY DEF Send
<1>3. RestOK'
  <2>1. /\ group_id_' = [group_id_ EXCEPT ![s] = g]
        /\ UNCHANGED <<lossy, duplicates, restarts>>
    BY DEF Send
  <2> HIDE DEF g
  <2> QED  BY <1>1, <1>2, <2>1 DEF TypeOK, RestOK
<1>4. SendersOK'
  <2>1. sending' = [sending EXCEPT ![s] =
            IF Packets[m] = 0 THEN Idle
            ELSE [state |-> "sending", group_id |-> g, msg |-> m, next |-> 0]]
    BY DEF Send
  <2>2. Packets[m] \in Nat
    BY PacketsAssumption
  <2> HIDE DEF g
  <2>3. /\ sending \in [Senders -> {Idle} \union Sending]
        /\ \A r \in Senders : SendOK(sending[r], sent)
    BY TypeParts DEF SendersOK
  <2>4. Packets[m] # 0 => sending'[s] \in Sending
    BY <1>1, <2>1, <2>3 DEF Sending
  <2>5. sending' \in [Senders -> {Idle} \union Sending]
    BY <2>1, <2>3, <2>4
  <2>6. ASSUME NEW r \in Senders
        PROVE  SendOK(sending'[r], sent')
    BY <1>2, <2>1, <2>2, <2>3 DEF SendOK
  <2> QED  BY <2>5, <2>6 DEF SendersOK
<1>5. NetOK' /\ GroupsOK'
  BY <1>2 DEF Send, receiverVars, TypeOK, NetOK, GroupsOK
<1> QED  BY <1>3, <1>4, <1>5, TypePartsNext

LEMMA SendFragmentType ==
    ASSUME TypeOK, NEW s \in Senders, SendFragment(s)
    PROVE  TypeOK'
<1> DEFINE snd == sending[s]
<1>1. /\ snd \in Sending /\ SendOK(snd, sent) /\ snd # Idle
      /\ Packets[snd.msg] \in Nat
      /\ \A r \in Senders : SendOK(sending[r], sent)
      /\ sending \in [Senders -> {Idle} \union Sending]
  BY TypeParts, PacketsAssumption DEF SendFragment, SendersOK, Sending
<1>2. /\ net' = net \union {Fragment(snd)}
      /\ sending' = [sending EXCEPT ![s] =
            IF snd.next + 1 = Packets[snd.msg] THEN Idle
            ELSE [snd EXCEPT !.next = snd.next + 1]]
      /\ UNCHANGED <<group_id_, sent, lossy, duplicates, restarts, m_groups>>
  BY DEF SendFragment, receiverVars
<1> HIDE DEF snd
<1>3. NetOK'
  <2>1. /\ [group_id |-> Fragment(snd).group_id, msg |-> Fragment(snd).msg] \in sent
        /\ Fragment(snd).packet_id = snd.next
        /\ Fragment(snd).total_packets = Packets[Fragment(snd).msg]
        /\ Fragment(snd).msg = snd.msg
    BY <1>1 DEF Fragment, SendOK
  <2>2. snd.next \in 0..(Packets[snd.msg] - 1)
    BY <1>1 DEF Sending, SendOK
  <2> QED  BY <1>2, <2>1, <2>2 DEF TypeOK, NetOK
<1>4. SendersOK'
  <2>1. CASE snd.next + 1 = Packets[snd.msg]
    BY <1>1, <1>2, <2>1 DEF SendersOK, SendOK
  <2>2. CASE snd.next + 1 # Packets[snd.msg]
    <3> DEFINE new == [snd EXCEPT !.next = snd.next + 1]
    <3>1. new \in Sending /\ new.next < Packets[new.msg]
      BY <1>1, <2>2 DEF Sending, SendOK
    <3>2. SendOK(new, sent')
      BY <1>1, <1>2, <3>1 DEF Sending, SendOK
    <3>3. sending' = [sending EXCEPT ![s] = new]
      BY <1>2, <2>2
    <3> HIDE DEF new
    <3> QED  BY <1>1, <1>2, <3>1, <3>2, <3>3 DEF SendersOK, SendOK
  <2> QED  BY <2>1, <2>2
<1>5. GroupsOK' /\ RestOK'
  BY <1>2 DEF TypeOK, GroupsOK, RestOK
<1> QED  BY <1>3, <1>4, <1>5, TypePartsNext

LEMMA SenderGoesType ==
    ASSUME TypeOK, NEW s \in Senders, SendFails(s) \/ Restart(s)
    PROVE  TypeOK'
<1>1. /\ UNCHANGED <<sent, net, duplicates, m_groups>>
      /\ sending' = [sending EXCEPT ![s] = Idle]
  BY DEF SendFails, Restart, receiverVars
<1>2. SendersOK'
  BY <1>1, TypeParts DEF SendersOK, SendOK
<1>3. NetOK' /\ GroupsOK'
  BY <1>1 DEF TypeOK, NetOK, GroupsOK
<1>4. RestOK'
  <2>1. lossy' \in BOOLEAN
    BY DEF SendFails, Restart
  <2>2. group_id_' \in [Senders -> 0..(GroupIds - 1)]
    BY BoundsAssumption DEF SendFails, Restart, TypeOK
  <2>3. restarts' \in 0..MaxRestarts
    BY BoundsAssumption DEF SendFails, Restart, TypeOK
  <2> QED  BY <1>1, <2>1, <2>2, <2>3 DEF TypeOK, RestOK
<1> QED  BY <1>2, <1>3, <1>4, TypePartsNext

LEMMA LoseType ==
    ASSUME TypeOK, NEW p \in net, Lose(p)
    PROVE  TypeOK'
<1>1. /\ UNCHANGED <<group_id_, sending, sent, duplicates, restarts, m_groups>>
      /\ net' = net \ {p} /\ lossy' = TRUE
  BY DEF Lose, receiverVars
<1>2. SendersOK' /\ GroupsOK'
  BY <1>1, TypeParts DEF SendersOK, SendOK, GroupsOK
<1>3. NetOK' /\ RestOK'
  BY <1>1, TypeParts DEF NetOK, RestOK
<1> QED  BY <1>2, <1>3, TypePartsNext

-----------------------------------------------------------------------------
(* The receiver.                                                           *)

(* A datagram changes its own group, which is kept or delivered.           *)
LEMMA ReceiveCases ==
    ASSUME NEW p \in net, Receive(p)
    PROVE  LET info == Stored(p)
           IN  \/ /\ IsGroupComplete(info)
                  /\ delivered' = Append(delivered, MergeGroup(info))
                  /\ m_groups' = [g \in DOMAIN m_groups \ {p.group_id} |-> m_groups[g]]
               \/ /\ UNCHANGED delivered
                  /\ m_groups' = Insert(m_groups, p.group_id, info)
  BY DEF Receive, HandlePacket, HandleComplete, Restrict

(* Every group after the step is the datagram's, or one that was there.    *)
LEMMA GroupsAfter ==
    ASSUME NEW p \in net, Receive(p), NEW g \in DOMAIN m_groups'
    PROVE  \/ g = p.group_id /\ m_groups'[g] = Stored(p)
           \/ g \in DOMAIN m_groups /\ m_groups'[g] = m_groups[g]
  BY ReceiveCases DEF Insert

LEMMA ReceiveType ==
    ASSUME IInv, NEW p \in net, Receive(p)
    PROVE  TypeOK'
<1>0. TypeOK
  BY DEF IInv
<1>1. /\ UNCHANGED <<group_id_, sending, sent, lossy, restarts>>
      /\ net' \subseteq net
  BY DEF Receive
<1>2. SendersOK' /\ NetOK'
  BY <1>0, <1>1, TypeParts DEF SendersOK, SendOK, NetOK
<1>3. RestOK'
  <2>1. duplicates' \in 0..MaxDuplicates
    BY <1>0, BoundsAssumption DEF Receive, TypeOK
  <2> QED  BY <1>0, <1>1, <2>1 DEF TypeOK, RestOK
<1>4. ASSUME NEW g \in DOMAIN m_groups'
      PROVE  \E x \in sent : /\ x.group_id = g
                             /\ m_groups'[g].total_packets = Packets[x.msg]
  BY <1>0, <1>4, GroupsAfter, StoredGroup DEF TypeOK
<1>5. GroupsOK'
  BY <1>1, <1>4 DEF GroupsOK
<1> QED  BY <1>2, <1>3, <1>5, TypePartsNext

LEMMA ReceivePieces ==
    ASSUME IInv, NEW p \in net, Receive(p)
    PROVE  PiecesInv'
<1>1. ASSUME NEW g \in DOMAIN m_groups', NEW i \in DOMAIN m_groups'[g].packets
      PROVE  m_groups'[g].packets[i] \in Messages
  BY <1>1, GroupsAfter, StoredGroup DEF IInv, PiecesInv
<1>2. ASSUME IsGroupComplete(Stored(p))
      PROVE  MergeGroup(Stored(p)) \in Merged
  <2> DEFINE info == Stored(p)
  <2>1. /\ info.total_packets \in Nat
        /\ \A i \in DOMAIN info.packets : info.packets[i] \in Messages
    BY StoredGroup
  <2>2. \A i \in 0..(info.total_packets - 1) : i \in DOMAIN info.packets
    BY <1>2 DEF IsGroupComplete
  <2> HIDE DEF info
  <2>3. MergeGroup(info) \in [0..(info.total_packets - 1) -> Messages]
    BY <2>1, <2>2 DEF MergeGroup
  <2> QED  BY <2>1, <2>3 DEF Merged, info
<1>3. delivered \in Seq(Merged)
  BY DEF IInv, PiecesInv
<1>4. delivered' \in Seq(Merged)
  <2>1. ASSUME IsGroupComplete(Stored(p))
        PROVE  Append(delivered, MergeGroup(Stored(p))) \in Seq(Merged)
    BY <1>2, <1>3, <2>1, AppendProperties
  <2> QED  BY <1>3, <2>1, ReceiveCases
<1> QED  BY <1>1, <1>4 DEF PiecesInv

LEMMA ReceiveGroups ==
    ASSUME IInv, NEW p \in net, Receive(p)
    PROVE  GroupsInv'
<1> SUFFICES ASSUME UniqueGroupIds', NEW g \in DOMAIN m_groups', NEW x \in sent',
                    x.group_id = g
             PROVE  Belongs(m_groups'[g], x.msg)
  BY DEF GroupsInv, Belongs
<1>1. UNCHANGED sent /\ UniqueGroupIds
  BY DEF Receive, UniqueGroupIds
<1>2. CASE g = p.group_id /\ m_groups'[g] = Stored(p)
  <2>1. Belongs(Stored(p), p.msg)
    BY <1>1, StoredGroup
  <2>2. x.msg = p.msg
    <3> DEFINE y == [group_id |-> p.group_id, msg |-> p.msg]
    <3>1. y \in sent /\ y.group_id = g /\ y.msg = p.msg
      BY <1>2, InFlight DEF IInv
    <3> HIDE DEF y
    <3> QED  BY <1>1, <3>1 DEF UniqueGroupIds
  <2> QED  BY <1>2, <2>1, <2>2
<1>3. CASE g \in DOMAIN m_groups /\ m_groups'[g] = m_groups[g]
  BY <1>1, <1>3 DEF IInv, GroupsInv
<1> QED  BY <1>2, <1>3, GroupsAfter

(* A group that belongs to one message and is complete merges to it.       *)
LEMMA MergedWhole ==
    ASSUME NEW info, NEW m, Belongs(info, m), IsGroupComplete(info)
    PROVE  MergeGroup(info) = Whole(m)
<1>1. \A i \in 0..(info.total_packets - 1) :
          i \in DOMAIN info.packets /\ info.packets[i] = m
  BY DEF Belongs, IsGroupComplete
<1> QED  BY <1>1 DEF Belongs, MergeGroup, Whole

LEMMA ReceiveIntact ==
    ASSUME IInv, NEW p \in net, Receive(p)
    PROVE  DeliveredIntact'
<1> SUFFICES ASSUME UniqueGroupIds'
             PROVE  Range(delivered') \subseteq {Whole(x.msg) : x \in sent}
  BY DEF DeliveredIntact, Receive, Whole
<1>1. UniqueGroupIds
  BY DEF Receive, UniqueGroupIds
<1>2. Range(delivered) \subseteq {Whole(x.msg) : x \in sent}
  BY <1>1 DEF IInv, DeliveredIntact
<1>3. CASE UNCHANGED delivered
  BY <1>2, <1>3
<1>4. CASE /\ IsGroupComplete(Stored(p))
           /\ delivered' = Append(delivered, MergeGroup(Stored(p)))
  <2>1. MergeGroup(Stored(p)) = Whole(p.msg)
    BY <1>1, <1>4, StoredGroup, MergedWhole
  <2>2. Whole(p.msg) \in {Whole(x.msg) : x \in sent}
    <3>1. PICK x \in sent : x.msg = p.msg
      BY InFlight DEF IInv
    <3> QED  BY <3>1
  <2>3. ASSUME NEW i \in DOMAIN delivered'
        PROVE  delivered'[i] \in Range(delivered) \union {Whole(p.msg)}
    <3>1. delivered \in Seq(Range(delivered) \union {Whole(p.msg)})
      <4>1. delivered \in Seq(Merged)
        BY DEF IInv, PiecesInv
      <4>2. /\ Len(delivered) \in Nat
            /\ delivered = [j \in 1..Len(delivered) |-> delivered[j]]
            /\ DOMAIN delivered = 1..Len(delivered)
        BY <4>1, LenProperties
      <4>3. \A j \in 1..Len(delivered) : delivered[j] \in Range(delivered)
        BY <4>2 DEF Range
      <4> QED  BY <4>2, <4>3, SeqDef
    <3>2. delivered' \in Seq(Range(delivered) \union {Whole(p.msg)})
      BY <1>4, <2>1, <3>1, AppendProperties
    <3> QED  BY <3>2, ElementOfSeq, LenProperties
  <2> QED  BY <1>2, <2>2, <2>3 DEF Range
<1> QED  BY <1>3, <1>4, ReceiveCases

-----------------------------------------------------------------------------
LEMMA StepIInv == IInv /\ [Next]_vars => IInv'
<1> SUFFICES ASSUME IInv, [Next]_vars
             PROVE  IInv'
  OBVIOUS
<1>0. TypeOK
  BY DEF IInv
<1>1. ASSUME NEW s \in Senders, NEW m \in Messages, Send(s, m)
      PROVE  IInv'
  <2>1. TypeOK'
    BY <1>0, <1>1, SendType
  <2>2. UNCHANGED receiverVars /\ sent \subseteq sent'
    BY <1>1 DEF Send
  <2> QED  BY <2>1, <2>2, SenderStep DEF IInv
<1>2. ASSUME NEW s \in Senders, SendFragment(s) \/ SendFails(s) \/ Restart(s)
      PROVE  IInv'
  <2>1. TypeOK'
    BY <1>0, <1>2, SendFragmentType, SenderGoesType
  <2>2. UNCHANGED receiverVars /\ sent \subseteq sent'
    BY <1>2 DEF SendFragment, SendFails, Restart
  <2> QED  BY <2>1, <2>2, SenderStep DEF IInv
<1>3. ASSUME NEW p \in net, Lose(p)
      PROVE  IInv'
  <2>1. TypeOK'
    BY <1>0, <1>3, LoseType
  <2>2. UNCHANGED receiverVars /\ sent \subseteq sent'
    BY <1>3 DEF Lose
  <2> QED  BY <2>1, <2>2, SenderStep DEF IInv
<1>4. ASSUME NEW p \in net, Receive(p)
      PROVE  IInv'
  BY <1>4, ReceiveType, ReceivePieces, ReceiveGroups, ReceiveIntact DEF IInv
<1>5. CASE UNCHANGED vars
  <2>1. SendersOK' /\ NetOK' /\ GroupsOK' /\ RestOK'
    BY <1>0, <1>5, TypeParts DEF vars, SendersOK, SendOK, NetOK, GroupsOK, RestOK
  <2>2. UNCHANGED receiverVars /\ sent \subseteq sent'
    BY <1>5 DEF vars, receiverVars
  <2> QED  BY <2>1, <2>2, TypePartsNext, SenderStep DEF IInv
<1> QED  BY <1>1, <1>2, <1>3, <1>4, <1>5 DEF Next

(* While no two messages share a group_id, the receiver's callback gets    *)
(* nothing but what was sent, whole: for any number of senders, fragments, *)
(* losses, duplicates, restarts and any order of arrival                   *)
(* (UDPManager.hpp:116-175).                                               *)
THEOREM MessagesArriveIntact == Spec => []DeliveredIntact
<1>1. IInv => DeliveredIntact
  BY DEF IInv
<1> QED  BY <1>1, InitIInv, StepIInv, PTL DEF Spec

-----------------------------------------------------------------------------
(* How often a message is delivered.  Each of its fragments can come       *)
(* again as often as one was duplicated: what of it is to come, what the   *)
(* receiver holds of it and what it delivered are accounted together.      *)

Datagram == [group_id : 0..(GroupIds - 1), packet_id : Nat, total_packets : Nat,
             msg : Messages]

(* A message is sent once, and nothing of it is on its way that its Send   *)
(* has not come to.                                                        *)
OnceInv ==
    /\ net \subseteq Datagram
    /\ \A x, y \in sent : x.msg = y.msg => x = y
    /\ \A s, u \in Senders : sending[s] # Idle /\ sending[u] # Idle
                               /\ sending[s].msg = sending[u].msg => s = u
    /\ \A s \in Senders : sending[s] # Idle =>
          \A p \in net : p.msg = sending[s].msg => p.packet_id < sending[s].next

(* The fragments in flight, or not yet sent.                               *)
ToCome(x) ==
    {i \in 0..(Packets[x.msg] - 1) :
        \/ \E p \in net : p.msg = x.msg /\ p.packet_id = i
        \/ \E s \in Senders : /\ sending[s] # Idle /\ sending[s].msg = x.msg
                              /\ sending[s].next <= i}

Held(x) ==
    IF x.group_id \in DOMAIN m_groups THEN DOMAIN m_groups[x.group_id].packets ELSE {}

Account(x) ==
    Packets[x.msg] > 0 =>
       /\ Held(x) \subseteq 0..(Packets[x.msg] - 1)
       /\ Cardinality(ToCome(x)) + Cardinality(Held(x)) + Packets[x.msg] * Deliveries(x.msg)
             <= Packets[x.msg] + duplicates

AccountInv == UniqueGroupIds => \A x \in sent : Account(x)

AInv == IInv /\ OnceInv /\ AccountInv

LEMMA StepOnceInv == IInv /\ OnceInv /\ Next => OnceInv'
<1> SUFFICES ASSUME IInv, OnceInv, Next PROVE OnceInv'
  OBVIOUS
<1>0. /\ TypeOK /\ sending \in [Senders -> {Idle} \union Sending]
      /\ \A s \in Senders : SendOK(sending[s], sent)
      /\ \A n \in 0..(GroupIds - 1) : n \in Nat
  BY TypeParts, BoundsAssumption DEF IInv, SendersOK
<1>1. ASSUME NEW s \in Senders, NEW m \in Messages, Send(s, m)
      PROVE  OnceInv'
  <2> DEFINE g == (group_id_[s] + 1) % GroupIds
             new == [group_id |-> g, msg |-> m]
  <2>1. /\ sent' = sent \union {new} /\ new.msg = m
        /\ \A x \in sent : x.msg # m
        /\ UNCHANGED net
    BY <1>1 DEF Send
  <2>2. sending'[s] # Idle => sending'[s].msg = m
    BY <1>0, <1>1 DEF Send
  <2>3. \A u \in Senders \ {s} : sending'[u] = sending[u]
    BY <1>0, <1>1 DEF Send
  <2> HIDE DEF new
  <2>4. \A p \in net : p.msg # m
    BY <1>0, <2>1 DEF TypeOK
  <2>5. \A u \in Senders : sending[u] # Idle => sending[u].msg # m
    BY <1>0, <2>1 DEF SendOK
  <2> QED  BY <2>1, <2>2, <2>3, <2>4, <2>5 DEF OnceInv
<1>2. ASSUME NEW s \in Senders, SendFragment(s)
      PROVE  OnceInv'
  <2> DEFINE snd == sending[s]
  <2>1. /\ snd # Idle /\ snd \in Sending /\ snd.next < Packets[snd.msg]
        /\ Packets[snd.msg] \in Nat
    BY <1>0, <1>2, PacketsAssumption DEF SendFragment, SendOK, Sending
  <2>2. /\ net' = net \union {Fragment(snd)} /\ UNCHANGED sent
        /\ \A u \in Senders \ {s} : sending'[u] = sending[u]
    BY <1>0, <1>2 DEF SendFragment
  <2>3. sending'[s] # Idle => /\ sending'[s].msg = snd.msg
                              /\ sending'[s].next = snd.next + 1
    BY <1>0, <1>2, <2>1 DEF SendFragment, Sending
  <2>4. /\ Fragment(snd) \in Datagram /\ Fragment(snd).msg = snd.msg
        /\ Fragment(snd).packet_id = snd.next /\ snd.next \in Nat
    BY <2>1 DEF Fragment, Sending, Datagram
  <2>5. \A p \in net : p.packet_id \in Nat
    BY DEF OnceInv, Datagram
  <2> HIDE DEF snd
  <2>6. \A u \in Senders \ {s} : sending[u] # Idle => sending[u].msg # snd.msg
    BY <2>1 DEF OnceInv, snd
  <2>7. \A p \in net : p.msg = snd.msg => p.packet_id < snd.next
    BY <2>1 DEF OnceInv, snd
  <2>8. net' \subseteq Datagram
    BY <2>2, <2>4 DEF OnceInv
  <2>9. \A r, u \in Senders : sending'[r] # Idle /\ sending'[u] # Idle
                                  /\ sending'[r].msg = sending'[u].msg => r = u
    BY <2>2, <2>3, <2>6 DEF OnceInv
  <2>10. \A u \in Senders : sending'[u] # Idle =>
            \A p \in net' : p.msg = sending'[u].msg => p.packet_id < sending'[u].next
    BY <2>2, <2>3, <2>4, <2>5, <2>6, <2>7 DEF OnceInv
  <2> QED  BY <2>2, <2>8, <2>9, <2>10 DEF OnceInv
<1>3. ASSUME NEW s \in Senders, SendFails(s) \/ Restart(s)
      PROVE  OnceInv'
  <2>1. /\ UNCHANGED <<net, sent>> /\ sending'[s] = Idle
        /\ \A u \in Senders \ {s} : sending'[u] = sending[u]
    BY <1>0, <1>3 DEF SendFails, Restart
  <2> QED  BY <2>1 DEF OnceInv
<1>4. ASSUME NEW p \in net, Lose(p) \/ Receive(p)
      PROVE  OnceInv'
  <2>1. UNCHANGED <<sending, sent>> /\ net' \subseteq net
    BY <1>4 DEF Lose, Receive
  <2> QED  BY <2>1 DEF OnceInv
<1> QED  BY <1>1, <1>2, <1>3, <1>4 DEF Next

LEMMA Counts ==
    ASSUME NEW n \in Nat
    PROVE  \A S \in SUBSET (0..(n - 1)) :
              /\ IsFiniteSet(S) /\ Cardinality(S) \in 0..n
              /\ \A T \in SUBSET S : Cardinality(T) <= Cardinality(S)
              /\ \A i \in S : Cardinality(S \ {i}) = Cardinality(S) - 1
              /\ \A i \in 0..(n - 1) : Cardinality(S \union {i}) <= Cardinality(S) + 1
<1>1. IsFiniteSet(0..(n - 1)) /\ Cardinality(0..(n - 1)) = n
  BY FS_Interval
<1> SUFFICES ASSUME NEW S \in SUBSET (0..(n - 1))
             PROVE  /\ IsFiniteSet(S) /\ Cardinality(S) \in 0..n
                    /\ \A T \in SUBSET S : Cardinality(T) <= Cardinality(S)
                    /\ \A i \in S : Cardinality(S \ {i}) = Cardinality(S) - 1
                    /\ \A i \in 0..(n - 1) : Cardinality(S \union {i}) <= Cardinality(S) + 1
  OBVIOUS
<1>2. IsFiniteSet(S) /\ Cardinality(S) \in Nat /\ Cardinality(S) <= n
  BY <1>1, FS_Subset, FS_CardinalityType
<1>3. \A T \in SUBSET S : Cardinality(T) <= Cardinality(S)
  BY <1>2, FS_Subset
<1>4. \A i \in S : Cardinality(S \ {i}) = Cardinality(S) - 1
  BY <1>2, FS_RemoveElement
<1>5. \A i \in 0..(n - 1) : Cardinality(S \union {i}) <= Cardinality(S) + 1
  BY <1>2, FS_AddElement
<1> QED  BY <1>2, <1>3, <1>4, <1>5

LEMMA DeliveriesCounted ==
    ASSUME PiecesInv, NEW m
    PROVE  /\ IsFiniteSet({i \in DOMAIN delivered : delivered[i] = Whole(m)})
           /\ Deliveries(m) \in Nat
<1>1. IsFiniteSet(DOMAIN delivered)
  <2>1. DOMAIN delivered = 1..Len(delivered) /\ Len(delivered) \in Nat
    BY LenProperties DEF PiecesInv
  <2> QED  BY <2>1, FS_Interval
<1>2. IsFiniteSet({i \in DOMAIN delivered : delivered[i] = Whole(m)})
  BY <1>1, FS_Subset
<1> QED  BY <1>2, FS_CardinalityType DEF Deliveries

LEMMA DeliveredMore ==
    ASSUME PiecesInv, NEW m, NEW w, delivered' = Append(delivered, w)
    PROVE  Deliveries(m)' = IF w = Whole(m) THEN Deliveries(m) + 1 ELSE Deliveries(m)
<1> DEFINE S == {i \in DOMAIN delivered : delivered[i] = Whole(m)}
           n == Len(delivered) + 1
<1>1. /\ Len(delivered) \in Nat /\ DOMAIN delivered = 1..Len(delivered)
      /\ DOMAIN delivered' = 1..n /\ delivered'[n] = w
      /\ \A i \in DOMAIN delivered : delivered'[i] = delivered[i]
  BY LenProperties DEF PiecesInv
<1>2. IsFiniteSet(S)
  BY DeliveriesCounted
<1>0. n \notin S
  BY <1>1
<1>3. {i \in DOMAIN delivered' : delivered'[i] = Whole(m)}
         = IF w = Whole(m) THEN S \union {n} ELSE S
  BY <1>1
<1> HIDE DEF S, n
<1>4. Cardinality(S \union {n}) = Cardinality(S) + 1
  BY <1>0, <1>2, FS_AddElement
<1>5. Deliveries(m) = Cardinality(S)
  BY DEF Deliveries, S
<1>6. Deliveries(m)' = Cardinality({i \in DOMAIN delivered' : delivered'[i] = Whole(m)})
  BY DEF Deliveries, Whole
<1> QED  BY <1>3, <1>4, <1>5, <1>6

(* Messages with fragments are told apart by what is delivered.            *)
LEMMA WholeDiffers ==
    ASSUME NEW m \in Messages, NEW k \in Messages, Packets[m] > 0, Whole(k) = Whole(m)
    PROVE  k = m
<1>1. Packets[m] \in Nat /\ Packets[k] \in Nat
  BY PacketsAssumption
<1>2. 0 \in DOMAIN Whole(m) /\ Whole(m)[0] = m
  BY <1>1 DEF Whole
<1>3. 0 \in DOMAIN Whole(k) => Whole(k)[0] = k
  BY DEF Whole
<1> QED  BY <1>2, <1>3

LEMMA AccountTypes ==
    ASSUME IInv, NEW x \in sent
    PROVE  /\ x.msg \in Messages /\ Packets[x.msg] \in Nat /\ duplicates \in Nat
           /\ ToCome(x) \subseteq 0..(Packets[x.msg] - 1)
           /\ Deliveries(x.msg) \in Nat
<1>1. x.msg \in Messages /\ duplicates \in Nat
  BY BoundsAssumption DEF IInv, TypeOK
<1>2. Packets[x.msg] \in Nat
  BY <1>1, PacketsAssumption
<1> QED  BY <1>1, <1>2, DeliveriesCounted DEF IInv, ToCome

(* A step of a sender or of the network alone.                             *)
LEMMA SenderAccount ==
    ASSUME AInv, IInv', UNCHANGED <<receiverVars, duplicates>>, sent \subseteq sent',
           UniqueGroupIds', NEW x \in sent, ToCome(x)' \subseteq ToCome(x)
    PROVE  Account(x)'
<1>1. UniqueGroupIds
  BY DEF UniqueGroupIds
<1>2. Account(x)
  BY <1>1 DEF AInv, AccountInv
<1>3. /\ Packets[x.msg] \in Nat /\ ToCome(x) \subseteq 0..(Packets[x.msg] - 1)
      /\ duplicates \in Nat /\ Deliveries(x.msg) \in Nat
  BY AccountTypes DEF AInv
<1>4. UNCHANGED <<Held(x), Deliveries(x.msg)>>
  BY DEF receiverVars, Held, Deliveries, Whole
<1>5. /\ Cardinality(ToCome(x)') <= Cardinality(ToCome(x))
      /\ Cardinality(ToCome(x)') \in Nat /\ Cardinality(ToCome(x)) \in Nat
  BY <1>3, Counts
<1>6. Held(x) \subseteq 0..(Packets[x.msg] - 1) => Cardinality(Held(x)) \in Nat
  BY <1>3, Counts
<1>7. Packets[x.msg] * Deliveries(x.msg) \in Nat
  BY <1>3
<1> QED  BY <1>2, <1>3, <1>4, <1>5, <1>6, <1>7 DEF Account

LEMMA SendAccount ==
    ASSUME AInv, IInv', NEW s \in Senders, NEW m \in Messages, Send(s, m)
    PROVE  AccountInv'
<1> SUFFICES ASSUME UniqueGroupIds', NEW x \in sent' PROVE Account(x)'
  BY DEF AccountInv
<1> DEFINE new == [group_id |-> (group_id_[s] + 1) % GroupIds, msg |-> m]
<1>0. /\ IInv /\ TypeOK /\ sending \in [Senders -> {Idle} \union Sending]
      /\ sent' = sent \union {new} /\ new.msg = m /\ new \in sent'
      /\ \A y \in sent : y.msg # m
      /\ UNCHANGED <<net, receiverVars, duplicates>>
  BY TypeParts DEF Send, AInv, IInv, SendersOK
<1> HIDE DEF new
<1>1. ASSUME x \in sent PROVE Account(x)'
  <2>1. \A u \in Senders : sending'[u] # Idle =>
           sending'[u] = sending[u] \/ sending'[u].msg = m
    BY <1>0 DEF Send
  <2>2. ToCome(x)' \subseteq ToCome(x)
    BY <1>0, <1>1, <2>1 DEF ToCome
  <2> QED  BY <1>0, <1>1, <2>2, SenderAccount
<1>2. ASSUME x = new, Packets[m] > 0 PROVE Account(x)'
  <2>1. Packets[m] \in Nat
    BY PacketsAssumption
  <2>2. x.group_id \notin DOMAIN m_groups
    BY <1>0, <1>2 DEF TypeOK, UniqueGroupIds
  <2>3. Held(x)' = {}
    BY <1>0, <2>2 DEF Held, receiverVars
  <2>4. Deliveries(m)' = 0
    <3>1. UniqueGroupIds
      BY <1>0 DEF UniqueGroupIds
    <3>2. \A i \in DOMAIN delivered : \E y \in sent : delivered[i] = Whole(y.msg)
      BY <1>0, <3>1 DEF IInv, DeliveredIntact, Range
    <3>3. \A y \in sent : y.msg \in Messages
      BY <1>0 DEF TypeOK
    <3>4. \A i \in DOMAIN delivered : delivered[i] # Whole(m)
      BY <1>0, <1>2, <3>2, <3>3, WholeDiffers
    <3>5. {i \in DOMAIN delivered : delivered[i] = Whole(m)} = {}
      BY <3>4
    <3>6. Deliveries(m)' = Cardinality({i \in DOMAIN delivered : delivered[i] = Whole(m)})
      BY <1>0 DEF receiverVars, Deliveries, Whole
    <3> QED  BY <3>5, <3>6, FS_EmptySet
  <2>5. ToCome(x)' \subseteq 0..(Packets[m] - 1) /\ duplicates' \in Nat
    BY <1>0, <1>2, BoundsAssumption DEF ToCome, TypeOK
  <2>6. Cardinality(ToCome(x)') <= Packets[m] /\ Cardinality(ToCome(x)') \in Nat
    BY <2>1, <2>5, Counts
  <2>7. Cardinality(Held(x)') = 0
    BY <2>3, FS_EmptySet
  <2>8. Packets[m] * Deliveries(m)' = 0
    BY <2>1, <2>4
  <2> QED  BY <1>0, <1>2, <2>1, <2>3, <2>5, <2>6, <2>7, <2>8 DEF Account
<1>3. x \in sent \/ x = new
  BY <1>0
<1> QED  BY <1>0, <1>1, <1>2, <1>3 DEF Account

LEMMA NothingReceivedAccount ==
    ASSUME AInv, IInv',
           \/ \E s \in Senders : SendFragment(s) \/ SendFails(s) \/ Restart(s)
           \/ \E p \in net : Lose(p)
    PROVE  AccountInv'
<1> SUFFICES ASSUME UniqueGroupIds', NEW x \in sent' PROVE Account(x)'
  BY DEF AccountInv
<1>0. /\ TypeOK /\ sending \in [Senders -> {Idle} \union Sending]
      /\ UNCHANGED <<sent, receiverVars, duplicates>>
  BY TypeParts DEF AInv, IInv, SendersOK, SendFragment, SendFails, Restart, Lose
<1>1. ASSUME NEW s \in Senders, SendFragment(s)
      PROVE  ToCome(x)' \subseteq ToCome(x)
  <2> DEFINE snd == sending[s]
  <2>1. /\ snd # Idle /\ snd \in Sending
        /\ net' = net \union {Fragment(snd)}
        /\ \A u \in Senders \ {s} : sending'[u] = sending[u]
    BY <1>0, <1>1 DEF SendFragment
  <2>2. Fragment(snd).msg = snd.msg /\ Fragment(snd).packet_id = snd.next
    BY DEF Fragment
  <2>3. sending'[s] # Idle => /\ sending'[s].msg = snd.msg
                              /\ sending'[s].next = snd.next + 1
    BY <1>0, <1>1, <2>1 DEF SendFragment, Sending
  <2>4. snd.next \in Nat
    BY <2>1 DEF Sending
  <2>5. ASSUME NEW i \in ToCome(x)' PROVE i \in ToCome(x)
    <3>1. i \in 0..(Packets[x.msg] - 1)
      BY DEF ToCome
    <3>2. CASE \E p \in net' : p.msg = x.msg /\ p.packet_id = i
      BY <2>1, <2>2, <2>4, <3>1, <3>2 DEF ToCome
    <3>3. ASSUME NEW u \in Senders, sending'[u] # Idle, sending'[u].msg = x.msg,
                 sending'[u].next <= i
          PROVE  i \in ToCome(x)
      <4>1. CASE u = s
        <5>1. snd.msg = x.msg /\ snd.next <= i
          BY <2>3, <2>4, <3>1, <3>3, <4>1
        <5> QED  BY <2>1, <3>1, <5>1 DEF ToCome
      <4>2. CASE u # s
        BY <2>1, <3>1, <3>3, <4>2 DEF ToCome
      <4> QED  BY <4>1, <4>2
    <3> QED  BY <3>2, <3>3 DEF ToCome
  <2> QED  BY <2>5
<1>2. ASSUME NEW s \in Senders, SendFails(s) \/ Restart(s)
      PROVE  ToCome(x)' \subseteq ToCome(x)
  <2>1. \A u \in Senders : sending'[u] = Idle \/ sending'[u] = sending[u]
    BY <1>0, <1>2 DEF SendFails, Restart
  <2>2. net' = net
    BY <1>2 DEF SendFails, Restart
  <2> QED  BY <2>1, <2>2 DEF ToCome
<1>3. ASSUME NEW p \in net, Lose(p)
      PROVE  ToCome(x)' \subseteq ToCome(x)
  BY <1>3 DEF Lose, ToCome
<1>4. ToCome(x)' \subseteq ToCome(x)
  BY <1>1, <1>2, <1>3
<1> QED  BY <1>0, <1>4, SenderAccount

-----------------------------------------------------------------------------
(* A datagram arrives: it is one of what is to come no more, unless the    *)
(* network has another copy of it.                                         *)
LEMMA OneLessToCome ==
    ASSUME IInv, OnceInv, NEW p \in net, Receive(p), NEW x \in sent, x.msg = p.msg
    PROVE  /\ p.packet_id \in ToCome(x)
           /\ \/ UNCHANGED duplicates /\ ToCome(x)' \subseteq ToCome(x) \ {p.packet_id}
              \/ duplicates' = duplicates + 1 /\ ToCome(x)' = ToCome(x)
<1>0. TypeOK /\ p.total_packets = Packets[x.msg] /\ UNCHANGED sending
  BY DEF IInv, TypeOK, Receive
<1>1. p.packet_id \in ToCome(x)
  BY <1>0 DEF TypeOK, ToCome
<1>2. CASE net' = net \ {p} /\ UNCHANGED duplicates
  <2>1. \A q \in net : q.msg = p.msg /\ q.packet_id = p.packet_id => q = p
    <3> SUFFICES ASSUME NEW q \in net, q.msg = p.msg, q.packet_id = p.packet_id
                 PROVE  q = p
      OBVIOUS
    <3>1. p \in Datagram /\ q \in Datagram
      BY DEF OnceInv
    <3>2. q.total_packets = p.total_packets
      BY <1>0 DEF TypeOK
    <3>3. q.group_id = p.group_id
      <4> DEFINE y == [group_id |-> p.group_id, msg |-> p.msg]
                 z == [group_id |-> q.group_id, msg |-> q.msg]
      <4>1. y \in sent /\ z \in sent /\ y.msg = z.msg
        BY <1>0 DEF TypeOK
      <4>2. y = z
        BY <4>1 DEF OnceInv
      <4> QED  BY <4>2
    <3> QED  BY <3>1, <3>2, <3>3 DEF Datagram
  <2>2. \A s \in Senders : sending[s] # Idle /\ sending[s].msg = x.msg =>
           ~(sending[s].next <= p.packet_id)
    <3> SUFFICES ASSUME NEW s \in Senders, sending[s] # Idle, sending[s].msg = x.msg
                 PROVE  ~(sending[s].next <= p.packet_id)
      OBVIOUS
    <3>1. p.packet_id < sending[s].next
      BY DEF OnceInv
    <3>2. sending[s] \in Sending
      BY <1>0, TypeParts DEF SendersOK
    <3>3. sending[s].next \in Nat /\ p.packet_id \in Nat
      BY <3>2 DEF OnceInv, Datagram, Sending
    <3> QED  BY <3>1, <3>3
  <2>3. p.packet_id \notin ToCome(x)'
    BY <1>0, <1>2, <2>1, <2>2 DEF ToCome
  <2>4. ToCome(x)' \subseteq ToCome(x)
    BY <1>0, <1>2 DEF ToCome
  <2> QED  BY <1>1, <1>2, <2>3, <2>4
<1>3. CASE duplicates' = duplicates + 1 /\ UNCHANGED net
  BY <1>0, <1>1, <1>3 DEF ToCome
<1> QED  BY <1>2, <1>3 DEF Receive

(* What the receiver holds of a message, and with the datagram.            *)
LEMMA StoredHeld ==
    ASSUME AInv, UniqueGroupIds, NEW p \in net, NEW x \in sent, x.msg = p.msg
    PROVE  /\ x.group_id = p.group_id
           /\ DOMAIN Stored(p).packets = Held(x) \union {p.packet_id}
           /\ Belongs(Stored(p), p.msg)
<1> DEFINE y == [group_id |-> p.group_id, msg |-> p.msg]
<1>1. x = y
  <2>1. y \in sent /\ y.msg = p.msg
    BY InFlight DEF AInv, IInv
  <2> HIDE DEF y
  <2> QED  BY <2>1 DEF AInv, OnceInv
<1>2. x.group_id = p.group_id
  BY <1>1
<1>3. DOMAIN Stored(p).packets = Held(x) \union {p.packet_id}
  BY <1>2, EmptySeq DEF Stored, Held, Insert
<1> QED  BY <1>2, <1>3, StoredGroup DEF AInv

LEMMA Settled ==
    ASSUME NEW n \in Nat, NEW d \in Nat
    PROVE  n * (d + 1) = n * d + n /\ n * d \in Nat
  OBVIOUS

LEMMA ReceiveOtherAccount ==
    ASSUME AInv, IInv', NEW p \in net, Receive(p), UniqueGroupIds, NEW x \in sent,
           x.msg # p.msg
    PROVE  Account(x)'
<1> SUFFICES ASSUME Packets[x.msg] > 0
             PROVE  /\ Held(x)' \subseteq 0..(Packets[x.msg] - 1)
                    /\ Cardinality(ToCome(x)') + Cardinality(Held(x)')
                          + Packets[x.msg] * Deliveries(x.msg)'
                       <= Packets[x.msg] + duplicates'
  BY DEF Account
<1>0. IInv /\ PiecesInv /\ UNCHANGED sending /\ p.msg \in Messages
  BY InFlight DEF AInv, IInv, Receive
<1>1. /\ Packets[x.msg] \in Nat /\ ToCome(x) \subseteq 0..(Packets[x.msg] - 1)
      /\ duplicates \in Nat /\ Deliveries(x.msg) \in Nat /\ x.msg \in Messages
  BY <1>0, AccountTypes
<1>2. x.group_id # p.group_id
  <2> DEFINE y == [group_id |-> p.group_id, msg |-> p.msg]
  <2>1. y \in sent /\ y.group_id = p.group_id /\ y.msg = p.msg
    BY InFlight DEF AInv, IInv
  <2> HIDE DEF y
  <2> QED  BY <2>1 DEF UniqueGroupIds
<1>3. Held(x)' = Held(x)
  BY <1>2, ReceiveCases DEF Held, Insert
<1>4. Deliveries(x.msg)' = Deliveries(x.msg)
  <2>1. CASE UNCHANGED delivered
    BY <2>1 DEF Deliveries, Whole
  <2>2. CASE /\ IsGroupComplete(Stored(p))
             /\ delivered' = Append(delivered, MergeGroup(Stored(p)))
    <3>1. MergeGroup(Stored(p)) = Whole(p.msg)
      BY <1>0, <2>2, StoredGroup, MergedWhole
    <3>2. Whole(p.msg) # Whole(x.msg)
      BY <1>0, <1>1, WholeDiffers
    <3> QED  BY <1>0, <2>2, <3>1, <3>2, DeliveredMore
  <2> QED  BY <2>1, <2>2, ReceiveCases
<1>5. ToCome(x)' \subseteq ToCome(x)
  BY <1>0 DEF Receive, ToCome
<1>6. duplicates' \in {duplicates, duplicates + 1}
  BY DEF Receive
<1>7. /\ Cardinality(ToCome(x)') <= Cardinality(ToCome(x))
      /\ Cardinality(ToCome(x)') \in Nat /\ Cardinality(ToCome(x)) \in Nat
  BY <1>1, <1>5, Counts
<1>8. /\ Held(x) \subseteq 0..(Packets[x.msg] - 1)
      /\ Cardinality(ToCome(x)) + Cardinality(Held(x)) + Packets[x.msg] * Deliveries(x.msg)
            <= Packets[x.msg] + duplicates
  BY DEF AInv, AccountInv, Account
<1>9. Cardinality(Held(x)) \in Nat /\ Packets[x.msg] * Deliveries(x.msg) \in Nat
  BY <1>1, <1>8, Counts
<1> QED  BY <1>1, <1>3, <1>4, <1>6, <1>7, <1>8, <1>9

LEMMA ReceiveOwnAccount ==
    ASSUME AInv, IInv', NEW p \in net, Receive(p), UniqueGroupIds, NEW x \in sent,
           x.msg = p.msg
    PROVE  Account(x)'
<1> SUFFICES ASSUME Packets[x.msg] > 0
             PROVE  /\ Held(x)' \subseteq 0..(Packets[x.msg] - 1)
                    /\ Cardinality(ToCome(x)') + Cardinality(Held(x)')
                          + Packets[x.msg] * Deliveries(x.msg)'
                       <= Packets[x.msg] + duplicates'
  BY DEF Account
<1> DEFINE held == Held(x) \union {p.packet_id}
           n == Packets[x.msg]
           d == Deliveries(x.msg)
<1>0. IInv /\ OnceInv /\ PiecesInv
  BY DEF AInv, IInv
<1>1. /\ n \in Nat /\ ToCome(x) \subseteq 0..(n - 1)
      /\ duplicates \in Nat /\ d \in Nat /\ x.msg \in Messages
  BY <1>0, AccountTypes
<1>2. /\ x.group_id = p.group_id /\ DOMAIN Stored(p).packets = held
      /\ Belongs(Stored(p), p.msg)
  BY StoredHeld
<1>3. /\ p.packet_id \in ToCome(x)
      /\ \/ UNCHANGED duplicates /\ ToCome(x)' \subseteq ToCome(x) \ {p.packet_id}
         \/ duplicates' = duplicates + 1 /\ ToCome(x)' = ToCome(x)
  BY <1>0, OneLessToCome
<1>4. /\ Held(x) \subseteq 0..(n - 1)
      /\ Cardinality(ToCome(x)) + Cardinality(Held(x)) + n * d <= n + duplicates
  BY DEF AInv, AccountInv, Account
<1>5. p.packet_id \in 0..(n - 1) /\ held \subseteq 0..(n - 1)
  BY <1>1, <1>3, <1>4
<1>6. /\ Cardinality(held) <= Cardinality(Held(x)) + 1
      /\ Cardinality(Held(x)) \in Nat /\ Cardinality(held) \in Nat
  BY <1>1, <1>4, <1>5, Counts
<1>7. /\ Cardinality(ToCome(x)) \in Nat /\ Cardinality(ToCome(x)') \in Nat
      /\ \/ /\ duplicates' = duplicates
            /\ Cardinality(ToCome(x)') <= Cardinality(ToCome(x)) - 1
         \/ /\ duplicates' = duplicates + 1
            /\ Cardinality(ToCome(x)') = Cardinality(ToCome(x))
  <2>1. /\ Cardinality(ToCome(x)) \in Nat
        /\ Cardinality(ToCome(x) \ {p.packet_id}) = Cardinality(ToCome(x)) - 1
    BY <1>1, <1>3, Counts
  <2>2. ToCome(x) \ {p.packet_id} \in SUBSET (0..(n - 1))
    BY <1>1
  <2>3. \A T \in SUBSET (ToCome(x) \ {p.packet_id}) :
           /\ Cardinality(T) <= Cardinality(ToCome(x) \ {p.packet_id})
           /\ Cardinality(T) \in Nat
    BY <1>1, <2>2, Counts
  <2> QED  BY <1>3, <2>1, <2>3
<1>8. n * (d + 1) = n * d + n /\ n * d \in Nat
  BY <1>1, Settled
<1>9. CASE /\ IsGroupComplete(Stored(p))
           /\ delivered' = Append(delivered, MergeGroup(Stored(p)))
           /\ m_groups' = [g \in DOMAIN m_groups \ {p.group_id} |-> m_groups[g]]
  <2>1. Deliveries(x.msg)' = d + 1
    <3>1. MergeGroup(Stored(p)) = Whole(x.msg)
      BY <1>0, <1>9, StoredGroup, MergedWhole
    <3> QED  BY <1>0, <1>9, <3>1, DeliveredMore
  <2>2. Held(x)' = {} /\ Cardinality(Held(x)') = 0
    BY <1>2, <1>9, FS_EmptySet DEF Held
  <2>3. Cardinality(held) = n
    BY <1>2, <1>9 DEF IsGroupComplete, Belongs
  <2> HIDE DEF held, n, d
  <2> QED  BY <1>1, <1>4, <1>6, <1>7, <1>8, <2>1, <2>2, <2>3 DEF n, d
<1>10. CASE /\ UNCHANGED delivered
            /\ m_groups' = Insert(m_groups, p.group_id, Stored(p))
  <2>1. Held(x)' = held
    BY <1>2, <1>10 DEF Held, Insert
  <2>2. Deliveries(x.msg)' = d
    BY <1>10 DEF Deliveries, Whole
  <2> HIDE DEF held, n, d
  <2> QED  BY <1>1, <1>4, <1>5, <1>6, <1>7, <1>8, <2>1, <2>2 DEF n, d
<1> QED  BY <1>9, <1>10, ReceiveCases

LEMMA InitAInv == Init => AInv
<1> SUFFICES ASSUME Init PROVE AInv
  OBVIOUS
<1>1. sent = {} /\ net = {} /\ \A s \in Senders : sending[s] = Idle
  BY DEF Init
<1>2. OnceInv /\ AccountInv
  BY <1>1 DEF OnceInv, AccountInv
<1> QED  BY <1>2, InitIInv DEF AInv

LEMMA StepAInv == AInv /\ [Next]_vars => AInv'
<1> SUFFICES ASSUME AInv, [Next]_vars PROVE AInv'
  OBVIOUS
<1>0. IInv /\ OnceInv /\ IInv'
  BY StepIInv DEF AInv
<1>1. CASE UNCHANGED vars
  <2>1. OnceInv'
    BY <1>0, <1>1 DEF vars, OnceInv
  <2>2. AccountInv'
    BY <1>1 DEF vars, AInv, AccountInv, UniqueGroupIds, Account, ToCome, Held,
                Deliveries, Whole
  <2> QED  BY <1>0, <2>1, <2>2 DEF AInv
<1>2. CASE Next
  <2>1. OnceInv'
    BY <1>0, <1>2, StepOnceInv
  <2>2. ASSUME NEW p \in net, Receive(p) PROVE AccountInv'
    <3>1. UNCHANGED sent
      BY <2>2 DEF Receive
    <3>2. UniqueGroupIds' => UniqueGroupIds
      BY <3>1 DEF UniqueGroupIds
    <3>3. ASSUME UniqueGroupIds, NEW x \in sent PROVE Account(x)'
      BY <1>0, <2>2, <3>3, ReceiveOtherAccount, ReceiveOwnAccount
    <3> QED  BY <3>1, <3>2, <3>3 DEF AccountInv
  <2>3. AccountInv'
    BY <1>0, <1>2, <2>2, SendAccount, NothingReceivedAccount DEF Next
  <2> QED  BY <1>0, <2>1, <2>3 DEF AInv
<1> QED  BY <1>1, <1>2

(* While no two messages share a group_id, k deliveries of a message of n  *)
(* fragments took n * (k - 1) duplicates of the network: no fragment that  *)
(* comes late or twice opens a group that completes by itself, whatever    *)
(* came before and in whatever order (UDPManager.hpp:116-175).             *)
THEOREM RepeatsAreCopies == Spec => []AgainOnlyIfAllDuplicated
<1>1. AInv => AgainOnlyIfAllDuplicated
  <2> SUFFICES ASSUME AInv, UniqueGroupIds, NEW x \in sent
               PROVE  Packets[x.msg] * (Deliveries(x.msg) - 1) <= duplicates
    BY DEF AgainOnlyIfAllDuplicated
  <2>1. /\ Packets[x.msg] \in Nat /\ duplicates \in Nat /\ Deliveries(x.msg) \in Nat
        /\ ToCome(x) \subseteq 0..(Packets[x.msg] - 1)
    BY AccountTypes DEF AInv
  <2>2. CASE Packets[x.msg] = 0
    BY <2>1, <2>2
  <2>3. CASE Packets[x.msg] > 0
    <3> DEFINE n == Packets[x.msg]
               d == Deliveries(x.msg)
    <3>1. /\ Held(x) \subseteq 0..(n - 1)
          /\ Cardinality(ToCome(x)) + Cardinality(Held(x)) + n * d <= n + duplicates
      BY <2>3 DEF AInv, AccountInv, Account
    <3>2. Cardinality(ToCome(x)) \in Nat /\ Cardinality(Held(x)) \in Nat
      BY <2>1, <3>1, Counts
    <3> HIDE DEF n, d
    <3>3. n * (d - 1) = n * d - n /\ n * d \in Int
      BY <2>1 DEF n, d
    <3> QED  BY <2>1, <3>1, <3>2, <3>3 DEF n, d
  <2> QED  BY <2>1, <2>2, <2>3
<1> QED  BY <1>1, InitAInv, StepAInv, PTL DEF Spec
=============================================================================
