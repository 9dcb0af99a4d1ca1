-------------------------- MODULE BlockQueueProofs --------------------------
(***************************************************************************)
(* Proofs about BlockQueue, for any threads, items and capacity.           *)
(***************************************************************************)
EXTENDS BlockQueue, FiniteSetTheorems, SequenceTheorems, TLAPS

(* Every step changes a queue of items in one of four ways.                *)
LEMMA QueueOps ==
    ASSUME queue \in Seq(Items)
    PROVE  /\ \A v \in Items : /\ Append(queue, v) \in Seq(Items)
                               /\ Len(Append(queue, v)) = Len(queue) + 1
           /\ ~Empty => /\ Head(queue) \in Items
                        /\ Tail(queue) \in Seq(Items)
                        /\ Len(Tail(queue)) = Len(queue) - 1
                        /\ Len(queue) > 0
           /\ <<>> \in Seq(Items)
           /\ Len(<<>>) = 0
           /\ Len(queue) \in Nat
  BY AppendProperties, HeadTailProperties, EmptySeq, LenProperties DEF Empty

LEMMA InitTypeOK == Init => TypeOK
  BY EmptySeq DEF Init, TypeOK, Threads, Takers

(* Types and the bookkeeping of calls, the inductive invariant on which    *)
(* the other proofs build.                                                 *)
TypeInv == TypeOK /\ CallsAccounted

LEMMA InitTypeInv == Init => TypeInv
<1>1. ASSUME Init
      PROVE  CallsAccounted
  BY <1>1, ThreadAssumption DEF Init, CallsAccounted, Threads, Takers, NoItem,
                                Waiting, Refused
<1> QED  BY <1>1, InitTypeOK DEF TypeInv

LEMMA StepTypeInv == TypeInv /\ [Next]_vars => TypeInv'
<1> SUFFICES ASSUME TypeInv, [Next]_vars
             PROVE  TypeInv'
  OBVIOUS
<1> USE DEF TypeInv, TypeOK, CallsAccounted
<1>1. ASSUME NEW p \in Producers, NEW v \in Items, Push(p, v)
      PROVE  TypeInv'
  <2>1. CASE PushItem(p, v)
    BY <1>1, <2>1, QueueOps, ThreadAssumption, ItemAssumption
    DEF Push, PushItem, NotifyOneConsumer, Threads, NoItem, Takers
  <2>2. CASE PushSleep(p, v)
    BY <1>1, <2>2, ThreadAssumption, ItemAssumption
    DEF Push, PushSleep, Threads, NoItem, Takers
  <2> QED  BY <1>1, <2>1, <2>2 DEF Push
<1>2. ASSUME NEW p \in Producers, PushResume(p)
      PROVE  TypeInv'
  <2>1. arg[p] \in Items /\ p \notin condProducer
    BY <1>2 DEF PushResume, PushWoken
  <2>2. CASE PushItem(p, arg[p])
    BY <1>2, <2>1, <2>2, QueueOps, ThreadAssumption, ItemAssumption
    DEF PushItem, NotifyOneConsumer, Threads, NoItem, Takers
  <2>3. CASE PushSleep(p, arg[p])
    BY <1>2, <2>1, <2>3, ThreadAssumption, ItemAssumption
    DEF PushSleep, Threads, NoItem, Takers
  <2> QED  BY <1>2, <2>2, <2>3 DEF PushResume
<1>3. ASSUME NEW c \in Takers, PopItem(c), c \notin condConsumer
      PROVE  TypeInv'
  BY <1>3, QueueOps, ThreadAssumption, ItemAssumption
  DEF PopItem, NotifyOneProducer, Threads, Takers, Waiting
<1>4. ASSUME NEW c \in Takers, NEW op \in {"pop", "popFor"}, PopSleep(c, op)
      PROVE  TypeInv'
  BY <1>4, ThreadAssumption DEF PopSleep, Threads, Takers, Waiting
<1>5. ASSUME NEW c \in Takers, ReturnFalse(c), c \notin condConsumer
      PROVE  TypeInv'
  BY <1>5, ThreadAssumption, ItemAssumption
  DEF ReturnFalse, Threads, Takers, Waiting, Refused
<1>6. ASSUME NEW c \in Takers, Expire(c)
      PROVE  TypeInv'
  BY <1>6, ThreadAssumption DEF Expire, Threads, Takers
<1>7. ASSUME NEW k \in Controllers, ControllerStep(k)
      PROVE  TypeInv'
  <2>1. CASE Close(k)
    BY <2>1, QueueOps, ThreadAssumption DEF Close, Threads, Takers
  <2>2. CASE CloseNotifyProducers(k)
    BY <2>2, ThreadAssumption DEF CloseNotifyProducers, Threads, Takers
  <2>3. CASE CloseNotifyConsumers(k)
    BY <2>3, ThreadAssumption DEF CloseNotifyConsumers, Threads, Takers
  <2>4. CASE Flush(k)
    BY <2>4 DEF Flush, NotifyOneConsumer
  <2> QED  BY <1>7, <2>1, <2>2, <2>3, <2>4 DEF ControllerStep
<1>8. ASSUME NEW t \in Threads, SpuriousWakeup(t)
      PROVE  TypeInv'
  BY <1>8 DEF SpuriousWakeup
<1>9. ASSUME NEW c \in Takers, Pop(c) \/ PopFor(c) \/ PopResume(c) \/ Expire(c)
                                 \/ PopTimeout(c)
      PROVE  TypeInv'
  BY <1>9, <1>3, <1>4, <1>5, <1>6
  DEF Pop, PopFor, PopResume, PopWoken, PopTimeout
<1>10. CASE UNCHANGED vars
  BY <1>10 DEF vars
<1> QED
  BY <1>1, <1>2, <1>7, <1>8, <1>9, <1>10
  DEF Next, ProducerStep, ConsumerStep, TimedConsumerStep, Takers

(* Types hold in every reachable state, for any number of threads.         *)
THEOREM TypeCorrect == Spec => []TypeInv
  BY InitTypeInv, StepTypeInv, PTL DEF Spec

-----------------------------------------------------------------------------
(* The queue is a bounded FIFO buffer.                                     *)

LEMMA StepImplementsBuffer ==
    TypeInv /\ [Next]_vars => [Buffer!Next]_(Buffer!bbVars)
<1> SUFFICES ASSUME TypeInv, [Next]_vars
             PROVE  Buffer!Next \/ UNCHANGED Buffer!bbVars
  OBVIOUS
<1> USE DEF TypeInv, TypeOK, CallsAccounted, Buffer!bbVars
<1>1. ASSUME NEW p \in Producers, NEW v \in Items, Push(p, v)
      PROVE  Buffer!Offer(p, v) \/ Buffer!Put(p, v)
  <2>1. arg[p] = NoItem
    BY <1>1 DEF Push
  <2> QED
    BY <1>1, <2>1, QueueOps, CapacityAssumption
    DEF Push, PushItem, PushSleep, Full, Buffer!Offer, Buffer!Put, NoItem,
        Buffer!NoItem
<1>2. ASSUME NEW p \in Producers, PushResume(p)
      PROVE  \/ Buffer!Put(p, arg[p]) /\ arg[p] \in Items
             \/ UNCHANGED Buffer!bbVars
  <2>1. arg[p] \in Items /\ pc[p] = "push"
    BY <1>2 DEF PushResume, PushWoken
  <2>2. CASE PushItem(p, arg[p])
    BY <2>1, <2>2, QueueOps, CapacityAssumption
    DEF PushItem, Full, Buffer!Put, NoItem, Buffer!NoItem
  <2>3. CASE PushSleep(p, arg[p])
    <3>1. arg' = arg
      BY <2>1, <2>3 DEF PushSleep
    <3> QED  BY <2>3, <3>1 DEF PushSleep
  <2> QED  BY <1>2, <2>2, <2>3 DEF PushResume
<1>3. ASSUME NEW c \in Takers, PopItem(c)
      PROVE  Buffer!Take(c)
  BY <1>3 DEF PopItem, Empty, Buffer!Take
<1>4. ASSUME NEW c \in Takers, NEW op, PopSleep(c, op)
      PROVE  Buffer!Ask(c) \/ UNCHANGED Buffer!bbVars
  <2>1. CASE ret[c] = Waiting
    <3>1. ret' = ret
      BY <1>4, <2>1 DEF PopSleep
    <3> QED  BY <1>4, <3>1 DEF PopSleep
  <2>2. CASE ret[c] # Waiting
    BY <1>4, <2>2 DEF PopSleep, Empty, Buffer!Ask, Waiting, Buffer!Waiting
  <2> QED  BY <2>1, <2>2
<1>5. ASSUME NEW c \in Takers, ReturnFalse(c), pc[c] # "idle",
             isClose \/ c \in TimedConsumers
      PROVE  Buffer!Refuse(c)
  BY <1>5 DEF ReturnFalse, Buffer!Refuse, Waiting, Buffer!Waiting, Refused,
              Buffer!Refused
<1>6. ASSUME NEW c \in Consumers, ConsumerStep(c)
      PROVE  \/ Buffer!Ask(c) \/ Buffer!Take(c) \/ Buffer!Refuse(c)
             \/ UNCHANGED Buffer!bbVars
  BY <1>6, <1>3, <1>4, <1>5 DEF ConsumerStep, Pop, PopResume, PopWoken, Takers
<1>7. ASSUME NEW c \in TimedConsumers, TimedConsumerStep(c)
      PROVE  \/ Buffer!Ask(c) \/ Buffer!Take(c) \/ Buffer!Refuse(c)
             \/ UNCHANGED Buffer!bbVars
  <2>1. CASE Expire(c)
    BY <2>1 DEF Expire
  <2> QED
    BY <1>7, <1>3, <1>4, <1>5, <2>1
    DEF TimedConsumerStep, PopFor, PopResume, PopWoken, PopTimeout, Takers
<1>8. ASSUME NEW k \in Controllers, ControllerStep(k)
      PROVE  Buffer!Discard \/ UNCHANGED Buffer!bbVars
  BY <1>8 DEF ControllerStep, Close, CloseNotifyProducers, CloseNotifyConsumers,
              Flush, Buffer!Discard
<1>9. ASSUME NEW t \in Threads, SpuriousWakeup(t)
      PROVE  UNCHANGED Buffer!bbVars
  BY <1>9 DEF SpuriousWakeup
<1>10. CASE UNCHANGED vars
  BY <1>10 DEF vars
<1> QED
  BY <1>1, <1>2, <1>6, <1>7, <1>8, <1>9, <1>10
  DEF Next, ProducerStep, Buffer!Next, Takers, Buffer!Takers

(* Any threads, any capacity: the queue hands out what was pushed, once,   *)
(* oldest first, holds at most Capacity items, and refuses an untimed Pop  *)
(* only after Close.                                                       *)
THEOREM QueueImplementsBuffer == Spec => ImplementsBuffer
<1>1. Init => Buffer!Init
  BY DEF Init, Buffer!Init, Takers, Buffer!Takers, NoItem, Buffer!NoItem,
         Refused, Buffer!Refused
<1> QED
  BY <1>1, TypeCorrect, StepImplementsBuffer, PTL
  DEF Spec, ImplementsBuffer, Buffer!Spec

-----------------------------------------------------------------------------
(* No wakeup is lost.  What notify_one does to the woken threads.          *)

LEMMA WokenFinite ==
    /\ IsFiniteSet(WokenConsumers) /\ Cardinality(WokenConsumers) \in Nat
    /\ IsFiniteSet(WokenProducers) /\ Cardinality(WokenProducers) \in Nat
  BY ThreadAssumption, FS_Subset, FS_CardinalityType
  DEF WokenConsumers, WokenProducers, Threads

LEMMA WokenFiniteNext ==
    /\ IsFiniteSet(WokenConsumers') /\ Cardinality(WokenConsumers') \in Nat
    /\ IsFiniteSet(WokenProducers') /\ Cardinality(WokenProducers') \in Nat
  BY ThreadAssumption, FS_Subset, FS_CardinalityType
  DEF WokenConsumers, WokenProducers, Threads

LEMMA RemoveOne ==
    ASSUME NEW S, IsFiniteSet(S), NEW x
    PROVE  Cardinality(S \ {x}) >= Cardinality(S) - 1
<1>1. Cardinality(S) \in Nat
  BY FS_CardinalityType
<1> QED  BY <1>1, FS_RemoveElement

LEMMA ConsumerWoken ==
    ASSUME TypeInv, NEW c \in condConsumer, condConsumer' = condConsumer \ {c},
           \A d \in Takers : pc'[d] = pc[d]
    PROVE  Cardinality(WokenConsumers') = Cardinality(WokenConsumers) + 1
<1>1. /\ WokenConsumers' = WokenConsumers \union {c}
      /\ c \notin WokenConsumers
  BY DEF WokenConsumers, PopWoken, TypeInv, TypeOK
<1> QED  BY <1>1, WokenFinite, FS_AddElement

LEMMA ProducerWoken ==
    ASSUME TypeInv, NEW p \in condProducer, condProducer' = condProducer \ {p},
           \A d \in Producers : pc'[d] = pc[d]
    PROVE  Cardinality(WokenProducers') = Cardinality(WokenProducers) + 1
<1>1. /\ WokenProducers' = WokenProducers \union {p}
      /\ p \notin WokenProducers
  BY DEF WokenProducers, PushWoken, TypeInv, TypeOK
<1> QED  BY <1>1, WokenFinite, FS_AddElement

LEMMA StepNoLostItem ==
    TimedConsumers = {} /\ TypeInv /\ NoLostItem /\ [Next]_vars => NoLostItem'
<1> SUFFICES ASSUME TimedConsumers = {}, TypeInv, NoLostItem, [Next]_vars,
                    condConsumer' # {}, ~isClose'
             PROVE  Len(queue') <= Cardinality(WokenConsumers')
  BY DEF NoLostItem
<1> USE WokenFinite, WokenFiniteNext DEF TypeInv, TypeOK
<1>1. ASSUME NEW p \in Producers, NEW v \in Items, PushItem(p, v)
      PROVE  Len(queue') <= Cardinality(WokenConsumers')
  <2>1. \A d \in Takers : pc'[d] = pc[d]
    BY <1>1, ThreadAssumption DEF PushItem, Threads, Takers
  <2>2. PICK c \in condConsumer : condConsumer' = condConsumer \ {c}
    BY <1>1 DEF PushItem, NotifyOneConsumer
  <2>3. Cardinality(WokenConsumers') = Cardinality(WokenConsumers) + 1
    BY <2>1, <2>2, ConsumerWoken
  <2>4. Len(queue) <= Cardinality(WokenConsumers)
    BY <1>1, <2>2 DEF PushItem, NoLostItem
  <2> QED  BY <1>1, <2>3, <2>4, QueueOps DEF PushItem
<1>2. ASSUME NEW p \in Producers, NEW v, PushSleep(p, v)
      PROVE  Len(queue') <= Cardinality(WokenConsumers')
  <2>1. WokenConsumers' = WokenConsumers
    BY <1>2, ThreadAssumption DEF PushSleep, Threads, WokenConsumers, PopWoken
  <2> QED  BY <1>2, <2>1 DEF PushSleep, NoLostItem
<1>3. ASSUME NEW c \in Takers, PopItem(c), pc[c] = "idle" \/ PopWoken(c)
      PROVE  Len(queue') <= Cardinality(WokenConsumers')
  <2>1. WokenConsumers' = WokenConsumers \ {c}
    BY <1>3 DEF PopItem, Threads, WokenConsumers, PopWoken
  <2>2. Cardinality(WokenConsumers') >= Cardinality(WokenConsumers) - 1
    BY <2>1, RemoveOne
  <2>3. Len(queue) <= Cardinality(WokenConsumers)
    BY <1>3 DEF PopItem, NoLostItem
  <2> QED  BY <1>3, <2>2, <2>3, QueueOps DEF PopItem
<1>4. ASSUME NEW c, NEW op, PopSleep(c, op)
      PROVE  Len(queue') <= Cardinality(WokenConsumers')
  BY <1>4, QueueOps DEF PopSleep, Empty
<1>5. ASSUME NEW c \in Consumers, ConsumerStep(c)
      PROVE  Len(queue') <= Cardinality(WokenConsumers')
  <2>1. CASE isClose /\ ReturnFalse(c)
    BY <2>1 DEF ReturnFalse
  <2> QED
    BY <1>5, <1>3, <1>4, <2>1 DEF ConsumerStep, Pop, PopResume, Takers
<1>6. ASSUME NEW k \in Controllers, ControllerStep(k)
      PROVE  Len(queue') <= Cardinality(WokenConsumers')
  <2>1. CASE CloseNotifyProducers(k)
    <3>1. WokenConsumers' = WokenConsumers
      BY <2>1, ThreadAssumption
      DEF CloseNotifyProducers, Threads, Takers, WokenConsumers, PopWoken
    <3> QED  BY <2>1, <3>1 DEF CloseNotifyProducers, NoLostItem
  <2>2. CASE Flush(k)
    <3>1. PICK c \in condConsumer : condConsumer' = condConsumer \ {c}
      BY <2>2 DEF Flush, NotifyOneConsumer
    <3>2. Cardinality(WokenConsumers') = Cardinality(WokenConsumers) + 1
      BY <2>2, <3>1, ConsumerWoken DEF Flush
    <3> QED  BY <2>2, <3>1, <3>2, QueueOps DEF Flush, NoLostItem
  <2> QED
    BY <1>6, <2>1, <2>2 DEF ControllerStep, Close, CloseNotifyConsumers
<1>7. ASSUME NEW t \in Threads, SpuriousWakeup(t)
      PROVE  Len(queue') <= Cardinality(WokenConsumers')
  <2>1. CASE t \in condConsumer
    <3>1. Cardinality(WokenConsumers') = Cardinality(WokenConsumers) + 1
      BY <1>7, <2>1, ConsumerWoken DEF SpuriousWakeup
    <3> QED  BY <1>7, <2>1, <3>1, QueueOps DEF SpuriousWakeup, NoLostItem
  <2>2. CASE t \notin condConsumer
    <3>1. WokenConsumers' = WokenConsumers
      BY <1>7, <2>2 DEF SpuriousWakeup, WokenConsumers, PopWoken
    <3> QED  BY <1>7, <2>2, <3>1 DEF SpuriousWakeup, NoLostItem
  <2> QED  BY <2>1, <2>2
<1>8. CASE UNCHANGED vars
  BY <1>8 DEF vars, NoLostItem, WokenConsumers, PopWoken
<1>9. ASSUME NEW p \in Producers, ProducerStep(p)
      PROVE  Len(queue') <= Cardinality(WokenConsumers')
  <2>1. PushWoken(p) => arg[p] \in Items
    BY DEF PushWoken, CallsAccounted
  <2> QED
    BY <1>9, <1>1, <1>2, <2>1 DEF ProducerStep, Push, PushResume
<1> QED
  BY <1>5, <1>6, <1>7, <1>8, <1>9 DEF Next

(* Without timed consumers no item of an open queue is ever left without a *)
(* woken consumer while a consumer sleeps.                                 *)
THEOREM NoItemLost ==
    ASSUME TimedConsumers = {}
    PROVE  Spec => []NoLostItem
<1>1. Init => NoLostItem
  BY DEF Init, NoLostItem
<1>2. TypeInv /\ NoLostItem /\ [Next]_vars => NoLostItem'
  BY StepNoLostItem
<1> QED
  BY <1>1, <1>2, TypeCorrect, PTL DEF Spec

-----------------------------------------------------------------------------
LEMMA StepNoLostRoom ==
    TypeInv /\ NoLostRoom /\ [Next]_vars => NoLostRoom'
<1> DEFINE Announced == Capacity <= Len(queue) + Cardinality(WokenProducers)
           Quiet     == \A k \in Controllers : pc[k] # "notifyProducers"
<1> SUFFICES ASSUME TypeInv, NoLostRoom, [Next]_vars,
                    condProducer' # {}, Quiet'
             PROVE  Announced'
  BY DEF NoLostRoom
<1> USE WokenFinite, WokenFiniteNext, CapacityAssumption DEF TypeInv, TypeOK
<1>1. ASSUME condProducer # {}, Quiet
      PROVE  Announced
  BY <1>1 DEF NoLostRoom
<1>2. ASSUME NEW p \in Producers, NEW v \in Items, PushItem(p, v),
             pc[p] = "idle" \/ PushWoken(p)
      PROVE  Announced'
  <2>1. Quiet
    BY <1>2, ThreadAssumption DEF PushItem, Threads
  <2>2. WokenProducers' = WokenProducers \ {p}
    BY <1>2 DEF PushItem, Threads, WokenProducers, PushWoken
  <2>3. Cardinality(WokenProducers \ {p}) >= Cardinality(WokenProducers) - 1
    BY RemoveOne
  <2>4. Len(queue') = Len(queue) + 1
    BY <1>2, QueueOps DEF PushItem
  <2> QED  BY <1>1, <1>2, <2>1, <2>2, <2>3, <2>4, QueueOps DEF PushItem
<1>3. ASSUME NEW p, NEW v, PushSleep(p, v)
      PROVE  Announced'
  BY <1>3, QueueOps DEF PushSleep, Full
<1>4. ASSUME NEW p \in Producers, ProducerStep(p)
      PROVE  Announced'
  <2>1. PushWoken(p) => arg[p] \in Items
    BY DEF PushWoken, CallsAccounted
  <2> QED
    BY <1>4, <1>2, <1>3, <2>1 DEF ProducerStep, Push, PushResume
<1>5. ASSUME NEW c \in Takers, PopItem(c)
      PROVE  Announced'
  <2>1. Quiet
    BY <1>5, ThreadAssumption DEF PopItem, Threads
  <2>2. PICK p \in condProducer : condProducer' = condProducer \ {p}
    BY <1>5 DEF PopItem, NotifyOneProducer
  <2>3. \A d \in Producers : pc'[d] = pc[d]
    BY <1>5, ThreadAssumption DEF PopItem, Threads
  <2>4. Cardinality(WokenProducers') = Cardinality(WokenProducers) + 1
    BY <2>2, <2>3, ProducerWoken
  <2>5. Len(queue') = Len(queue) - 1
    BY <1>5, QueueOps DEF PopItem
  <2> QED  BY <1>1, <2>1, <2>2, <2>4, <2>5, QueueOps
<1>6. ASSUME UNCHANGED <<queue, condProducer>>, Quiet,
             \A d \in Producers : pc'[d] = pc[d]
      PROVE  Announced'
  <2>1. WokenProducers' = WokenProducers
    BY <1>6 DEF WokenProducers, PushWoken
  <2> QED  BY <1>1, <1>6, <2>1
<1>7. ASSUME NEW c \in Takers, \/ \E op \in {"pop", "popFor"} : PopSleep(c, op)
                               \/ ReturnFalse(c)
                               \/ Expire(c)
      PROVE  Announced'
  BY <1>6, <1>7, ThreadAssumption DEF PopSleep, ReturnFalse, Expire, Threads
<1>8. ASSUME NEW c \in Takers, ConsumerStep(c) \/ TimedConsumerStep(c)
      PROVE  Announced'
  BY <1>5, <1>7, <1>8
  DEF ConsumerStep, TimedConsumerStep, Pop, PopFor, PopResume, PopWoken,
      PopTimeout
<1>9. ASSUME NEW k \in Controllers, ControllerStep(k)
      PROVE  Announced'
  <2>1. ~Close(k) /\ ~CloseNotifyProducers(k)
    BY DEF Close, CloseNotifyProducers, Threads
  <2>2. CloseNotifyConsumers(k) \/ Flush(k)
    BY <1>9, <2>1 DEF ControllerStep
  <2> QED
    BY <1>6, <2>2, ThreadAssumption DEF CloseNotifyConsumers, Flush, Threads
<1>10. ASSUME NEW t \in Threads, SpuriousWakeup(t)
       PROVE  Announced'
  <2>1. Quiet
    BY <1>10 DEF SpuriousWakeup
  <2>2. CASE t \in condProducer
    <3>1. Cardinality(WokenProducers') = Cardinality(WokenProducers) + 1
      BY <1>10, <2>2, ProducerWoken DEF SpuriousWakeup
    <3> QED  BY <1>1, <1>10, <2>1, <2>2, <3>1, QueueOps DEF SpuriousWakeup
  <2>3. CASE t \notin condProducer
    BY <1>6, <1>10, <2>1, <2>3 DEF SpuriousWakeup
  <2> QED  BY <2>2, <2>3
<1>11. CASE UNCHANGED vars
  BY <1>6, <1>11 DEF vars
<1> QED
  BY <1>4, <1>8, <1>9, <1>10, <1>11 DEF Next, Takers

(* For any threads, timed consumers included: free places of the queue are *)
(* announced to sleeping producers one by one.                             *)
THEOREM NoRoomLost == Spec => []NoLostRoom
<1>1. Init => NoLostRoom
  BY DEF Init, NoLostRoom
<1> QED
  BY <1>1, TypeCorrect, StepNoLostRoom, PTL DEF Spec
=============================================================================
