----------------------------- MODULE BlockQueue -----------------------------
(***************************************************************************)
(* breUtils/BlockQueue.hpp: a queue behind one mutex and two condition     *)
(* variables.  The mutex is held from the start of an operation to its     *)
(* return or its next wait, so one such stretch is one action.  A          *)
(* condition variable is the set of the threads that sleep on it; a thread *)
(* inside Push or Pop that is in neither set has been woken and is about   *)
(* to take the mutex again.  Close and Flush notify without the mutex, so  *)
(* each of their notifications is an action of its own.                    *)
(***************************************************************************)
EXTENDS Naturals, Sequences, FiniteSets

CONSTANTS Producers,       \* threads that call Push
          Consumers,       \* threads that call Pop(item)
          TimedConsumers,  \* threads that call Pop(item, timeout_ms)
          Controllers,     \* threads that call Close and Flush
          Items,
          Capacity         \* MaxCapacity of the constructor

NoItem  == "NoItem"
Waiting == "Waiting"
Refused == "Refused"

Takers  == Consumers \union TimedConsumers
Threads == Producers \union Takers \union Controllers

ASSUME CapacityAssumption == Capacity \in Nat \ {0}
ASSUME ThreadAssumption ==
    /\ IsFiniteSet(Threads)
    /\ Producers \intersect Takers = {}
    /\ Controllers \intersect (Producers \union Takers) = {}
    /\ Consumers \intersect TimedConsumers = {}
ASSUME ItemAssumption == Items \intersect {NoItem, Waiting, Refused} = {}

VARIABLES queue,
          isClose,
          condProducer,  \* threads asleep in condProducer.wait
          condConsumer,  \* threads asleep in condConsumer.wait or wait_for
          pc,            \* the operation each thread is inside of
          arg,           \* the item of a Push under way
          ret            \* what a thread's latest Pop came to

vars == <<queue, isClose, condProducer, condConsumer, pc, arg, ret>>

TypeOK ==
    /\ queue \in Seq(Items)
    /\ isClose \in BOOLEAN
    /\ condProducer \subseteq {p \in Producers : pc[p] = "push"}
    /\ condConsumer \subseteq {c \in Takers : pc[c] \in {"pop", "popFor"}}
    /\ pc \in [Threads -> {"idle", "push", "pop", "popFor", "expired",
                           "notifyProducers", "notifyConsumers"}]
    /\ arg \in [Producers -> Items \union {NoItem}]
    /\ ret \in [Takers -> Items \union {Waiting, Refused}]

Init ==
    /\ queue = <<>>
    /\ isClose = FALSE
    /\ condProducer = {}
    /\ condConsumer = {}
    /\ pc = [t \in Threads |-> "idle"]
    /\ arg = [p \in Producers |-> NoItem]
    /\ ret = [c \in Takers |-> Refused]

Empty == queue = <<>>

Full == Len(queue) >= Capacity

(* notify_one wakes some sleeper, if there is one. *)
NotifyOneConsumer ==
    condConsumer' \in IF condConsumer = {} THEN {{}}
                      ELSE {condConsumer \ {c} : c \in condConsumer}

NotifyOneProducer ==
    condProducer' \in IF condProducer = {} THEN {{}}
                      ELSE {condProducer \ {p} : p \in condProducer}

-----------------------------------------------------------------------------
(* Push.  The loop tests the size only: Push never looks at isClose.       *)

(* Mutant of PushItem: notify only a queue that was empty.                 *)
PushItemNotifyIfEmpty(p, v) ==
    /\ ~Full
    /\ queue' = Append(queue, v)
    /\ pc' = [pc EXCEPT ![p] = "idle"]
    /\ arg' = [arg EXCEPT ![p] = NoItem]
    /\ IF Empty THEN NotifyOneConsumer ELSE UNCHANGED condConsumer
    /\ UNCHANGED <<isClose, condProducer, ret>>

PushItem(p, v) ==
    /\ ~Full
    /\ queue' = Append(queue, v)
    /\ pc' = [pc EXCEPT ![p] = "idle"]
    /\ arg' = [arg EXCEPT ![p] = NoItem]
    /\ NotifyOneConsumer
    /\ UNCHANGED <<isClose, condProducer, ret>>

PushSleep(p, v) ==
    /\ Full
    /\ condProducer' = condProducer \union {p}
    /\ pc' = [pc EXCEPT ![p] = "push"]
    /\ arg' = [arg EXCEPT ![p] = v]
    /\ UNCHANGED <<queue, isClose, condConsumer, ret>>

Push(p, v) == pc[p] = "idle" /\ (PushItem(p, v) \/ PushSleep(p, v))

PushWoken(p) == pc[p] = "push" /\ p \notin condProducer

PushResume(p) ==
    /\ PushWoken(p)
    /\ PushItem(p, arg[p]) \/ PushSleep(p, arg[p])

-----------------------------------------------------------------------------
(* Pop, with and without a timeout.  isClose is tested after a wait only,  *)
(* and there before the queue is looked at again.                          *)

(* Mutant of PopItem: notify only a queue that was full.                   *)
PopItemNotifyIfFull(c) ==
    /\ ~Empty
    /\ ret' = [ret EXCEPT ![c] = Head(queue)]
    /\ queue' = Tail(queue)
    /\ pc' = [pc EXCEPT ![c] = "idle"]
    /\ IF Full THEN NotifyOneProducer ELSE UNCHANGED condProducer
    /\ UNCHANGED <<isClose, condConsumer, arg>>

PopItem(c) ==
    /\ ~Empty
    /\ ret' = [ret EXCEPT ![c] = Head(queue)]
    /\ queue' = Tail(queue)
    /\ pc' = [pc EXCEPT ![c] = "idle"]
    /\ NotifyOneProducer
    /\ UNCHANGED <<isClose, condConsumer, arg>>

PopSleep(c, op) ==
    /\ Empty
    /\ condConsumer' = condConsumer \union {c}
    /\ pc' = [pc EXCEPT ![c] = op]
    /\ ret' = [ret EXCEPT ![c] = Waiting]
    /\ UNCHANGED <<queue, isClose, condProducer, arg>>

ReturnFalse(c) ==
    /\ ret' = [ret EXCEPT ![c] = Refused]
    /\ pc' = [pc EXCEPT ![c] = "idle"]
    /\ UNCHANGED <<queue, isClose, condProducer, condConsumer, arg>>

Pop(c)    == pc[c] = "idle" /\ (PopItem(c) \/ PopSleep(c, "pop"))
PopFor(c) == pc[c] = "idle" /\ (PopItem(c) \/ PopSleep(c, "popFor"))

PopWoken(c) == pc[c] \in {"pop", "popFor"} /\ c \notin condConsumer

(* Mutant of PopResume: an "if" where the code loops.                      *)
PopResumeOnce(c) ==
    /\ PopWoken(c)
    /\ IF isClose \/ Empty THEN ReturnFalse(c) ELSE PopItem(c)

(* Mutant of PopResume: the loop does not test isClose.                    *)
PopResumeUnclosed(c) ==
    /\ PopWoken(c)
    /\ PopItem(c) \/ PopSleep(c, pc[c])

PopResume(c) ==
    /\ PopWoken(c)
    /\ IF isClose THEN ReturnFalse(c)
                  ELSE PopItem(c) \/ PopSleep(c, pc[c])

(* wait_for reports a timeout by the clock: it does so to a thread nobody  *)
(* woke, and also to one that was notified but ran again too late.         *)
Expire(c) ==
    /\ pc[c] = "popFor"
    /\ condConsumer' = condConsumer \ {c}
    /\ pc' = [pc EXCEPT ![c] = "expired"]
    /\ UNCHANGED <<queue, isClose, condProducer, arg, ret>>

PopTimeout(c) == pc[c] = "expired" /\ ReturnFalse(c)

-----------------------------------------------------------------------------
(* Close empties and marks the queue under the mutex, then notifies twice. *)

Close(k) ==
    /\ pc[k] = "idle"
    /\ queue' = <<>>
    /\ isClose' = TRUE
    /\ pc' = [pc EXCEPT ![k] = "notifyProducers"]
    /\ UNCHANGED <<condProducer, condConsumer, arg, ret>>

(* Mutant of CloseNotifyProducers: the producers are forgotten.            *)
CloseForgetsProducers(k) ==
    /\ pc[k] = "notifyProducers"
    /\ pc' = [pc EXCEPT ![k] = "notifyConsumers"]
    /\ UNCHANGED <<queue, isClose, condProducer, condConsumer, arg, ret>>

CloseNotifyProducers(k) ==
    /\ pc[k] = "notifyProducers"
    /\ condProducer' = {}
    /\ pc' = [pc EXCEPT ![k] = "notifyConsumers"]
    /\ UNCHANGED <<queue, isClose, condConsumer, arg, ret>>

(* Mutant of CloseNotifyConsumers: notify_one for notify_all.              *)
CloseNotifyOneConsumer(k) ==
    /\ pc[k] = "notifyConsumers"
    /\ NotifyOneConsumer
    /\ pc' = [pc EXCEPT ![k] = "idle"]
    /\ UNCHANGED <<queue, isClose, condProducer, arg, ret>>

CloseNotifyConsumers(k) ==
    /\ pc[k] = "notifyConsumers"
    /\ condConsumer' = {}
    /\ pc' = [pc EXCEPT ![k] = "idle"]
    /\ UNCHANGED <<queue, isClose, condProducer, arg, ret>>

Flush(k) ==
    /\ pc[k] = "idle"
    /\ NotifyOneConsumer
    /\ UNCHANGED <<queue, isClose, condProducer, pc, arg, ret>>

(* A condition variable may wake a sleeper nobody notified. *)
SpuriousWakeup(t) ==
    /\ t \in condProducer \union condConsumer
    /\ condProducer' = condProducer \ {t}
    /\ condConsumer' = condConsumer \ {t}
    /\ UNCHANGED <<queue, isClose, pc, arg, ret>>

-----------------------------------------------------------------------------
ProducerStep(p) == (\E v \in Items : Push(p, v)) \/ PushResume(p)
ConsumerStep(c) == Pop(c) \/ PopResume(c)
TimedConsumerStep(c) == PopFor(c) \/ PopResume(c) \/ Expire(c) \/ PopTimeout(c)
ControllerStep(k) == \/ Close(k)
                     \/ CloseNotifyProducers(k)
                     \/ CloseNotifyConsumers(k)
                     \/ Flush(k)

Next ==
    \/ \E p \in Producers : ProducerStep(p)
    \/ \E c \in Consumers : ConsumerStep(c)
    \/ \E c \in TimedConsumers : TimedConsumerStep(c)
    \/ \E k \in Controllers : ControllerStep(k)
    \/ \E t \in Threads : SpuriousWakeup(t)

Spec == Init /\ [][Next]_vars

(* A thread that can run does run: one woken gets the mutex, one whose     *)
(* wait_for timed out returns, one inside Close finishes it.  Nobody is    *)
(* obliged to call, and nothing is assumed of when a timeout expires.      *)
Fairness ==
    /\ \A p \in Producers : WF_vars(PushResume(p))
    /\ \A c \in Takers : WF_vars(PopResume(c))
    /\ \A c \in TimedConsumers : WF_vars(PopTimeout(c))
    /\ \A k \in Controllers : /\ WF_vars(CloseNotifyProducers(k))
                              /\ WF_vars(CloseNotifyConsumers(k))

FairSpec == Spec /\ Fairness

-----------------------------------------------------------------------------
WokenConsumers == {c \in Takers : PopWoken(c)}
WokenProducers == {p \in Producers : PushWoken(p)}

(* No item is left behind by notify_one (BlockQueue.hpp:69, 77, 113): as   *)
(* long as the queue is open and a consumer sleeps, there is a woken       *)
(* consumer on its way for every item that is in.  It needs                *)
(* TimedConsumers = {}: a wait_for that expires after it was notified      *)
(* takes the notification with it.                                         *)
NoLostItem ==
    (condConsumer # {} /\ ~isClose) => Len(queue) <= Cardinality(WokenConsumers)

(* No room is left unannounced by notify_one (BlockQueue.hpp:90, 107) or   *)
(* by Close's notify_all (43): while a producer sleeps there is a woken    *)
(* producer for every free place, except between the two halves of Close.  *)
NoLostRoom ==
    (condProducer # {} /\ \A k \in Controllers : pc[k] # "notifyProducers")
        => Capacity <= Len(queue) + Cardinality(WokenProducers)

(* A thread holds an item for the queue exactly while it is inside Push,   *)
(* and a verdict of its latest Pop exactly while it is outside: the part   *)
(* of the state the proof of ImplementsBuffer needs besides the types.     *)
CallsAccounted ==
    /\ \A p \in Producers : pc[p] = "push" <=> arg[p] # NoItem
    /\ \A c \in Takers : pc[c] = "idle" <=> ret[c] # Waiting

(* The queue never outgrows the constructor's bound and an untimed Pop     *)
(* returns false only after Close: the queue is a bounded FIFO buffer.     *)
Buffer == INSTANCE BoundedBuffer
              WITH buffer <- queue, closed <- isClose, want <- arg, got <- ret
ImplementsBuffer == Buffer!Spec

(* An open queue keeps neither an item and a sleeping consumer nor a free  *)
(* place and a sleeping producer for ever (BlockQueue.hpp:69, 77, 90, 107).*)
SleepersAreServed ==
    /\ (queue # <<>> /\ condConsumer # {} /\ ~isClose)
          ~> (queue = <<>> \/ condConsumer = {} \/ isClose)
    /\ (~Full /\ condProducer # {} /\ ~isClose)
          ~> (Full \/ condProducer = {} \/ isClose)

(* Every consumer asleep when Close notifies gets out of Pop               *)
(* (BlockQueue.hpp:44, 84-86), whatever is pushed meanwhile.               *)
CloseReleasesConsumers ==
    \A c \in Takers :
        (c \in condConsumer /\ \E k \in Controllers : pc[k] = "notifyConsumers")
            ~> pc[c] = "idle"
=============================================================================
