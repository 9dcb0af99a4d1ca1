----------------------------- MODULE LogProofs -----------------------------
(***************************************************************************)
(* What the asynchronous log promises, for any number of threads, lines,   *)
(* capacities of the queue and midnights: Write never sleeps in Push while *)
(* it holds the log's mutex, a line whose Write returned is never dropped, *)
(* and lines keep the order of their calls.  All three rest on one         *)
(* inductive invariant: who holds the mutex and what he found there, where *)
(* each accepted line is, in which order the places hold them, and how     *)
(* long the file can be closed.                                            *)
(***************************************************************************)
EXTENDS Log, SequenceTheorems, TLAPS

Holds(t) == stage[t] \in {"locked", "push", "direct"}

(* The mutex is held from WriteLock to WriteReturn, so the holder finds    *)
(* the queue no longer than it saw it, and no producer is ever asleep.     *)
MutexInv ==
    /\ \A t \in Loggers : Holds(t) => mtx = t
    /\ \A t \in Loggers : pc[t] = "idle"
    /\ \A t \in Loggers : stage[t] = "push" => ~Q!Full
    /\ condProducer = {}

(* What the writer is doing fits what it left in the queue.                *)
WriterInv ==
    /\ pc[Writer] \in {"idle", "pop"}
    /\ writer # "pop" => pc[Writer] = "idle"
    /\ writer = "write" => ret[Writer] \in Lines

(* A file that is open is the one of the day the holder of the mutex read. *)
DayInv ==
    /\ today \in 0..LastDay /\ lineCount \in Nat /\ clock \in 0..LastDay
    /\ streamOpen => fileName.day = today
    /\ \A t \in Loggers : Holds(t) => today = stamp[t]

Entry == [line : Lines, name : FileName]

(* A line is given once.  One that waits for the mutex is not accepted;    *)
(* the holder's is the last one accepted and is not anywhere yet.          *)
LineInv ==
    /\ accepted \in Seq(Lines) /\ file \in Seq(Entry)
    /\ \A i, j \in DOMAIN accepted : accepted[i] = accepted[j] => i = j
    /\ \A t, u \in Loggers : line[t] = line[u] /\ line[t] # NoLine => t = u
    /\ \A t \in Loggers :
          /\ stage[t] # "idle" => line[t] \in Lines
          /\ stage[t] = "stamped" =>
                \A i \in DOMAIN accepted : accepted[i] # line[t]
          /\ Holds(t) => /\ accepted # <<>>
                         /\ line[t] = accepted[Len(accepted)]
                         /\ line[t] \notin direct
                         /\ \A i \in DOMAIN queue : queue[i] # line[t]
                         /\ \A i \in DOMAIN file : file[i].line # line[t]
                         /\ writer = "write" => ret[Writer] # line[t]

(* Nothing is lost.  Once the destructor has seen the queue empty, what    *)
(* was kept has left the queue, so Close drops none of it.                 *)
KeptInv ==
    /\ kept \subseteq Written \union ToSet(queue) \union InHand \union lost
    /\ destroyer \in {"close", "closing", "join", "gone"} =>
          kept \subseteq Written \union InHand \union lost

Before(l, m) == \E i, j \in DOMAIN accepted :
                    i < j /\ accepted[i] = l /\ accepted[j] = m

Accepted(l) == \E i \in DOMAIN accepted : accepted[i] = l

(* Lines come into the queue in order, leave it in order into the writer's *)
(* hand, and reach the file in order; a direct one was in no other place.  *)
QueueOrder ==
    /\ \A i \in DOMAIN queue : Accepted(queue[i]) /\ queue[i] \notin direct
    /\ \A i, j \in DOMAIN queue : i < j => Before(queue[i], queue[j])

HandOrder ==
    writer = "write" =>
        /\ Accepted(ret[Writer]) /\ ret[Writer] \notin direct
        /\ \A i \in DOMAIN queue : Before(ret[Writer], queue[i])

EntryOrder(k) ==
    /\ Accepted(file[k].line)
    /\ file[k].line \notin direct =>
          /\ \A i \in DOMAIN queue : Before(file[k].line, queue[i])
          /\ writer = "write" => Before(file[k].line, ret[Writer])

PairOrder(k, n) ==
    /\ file[k].line = file[n].line => k = n
    /\ k < n /\ file[k].line \notin direct /\ file[n].line \notin direct
          => Before(file[k].line, file[n].line)

FileOrder ==
    /\ \A l \in direct : Accepted(l)
    /\ \A k \in DOMAIN file : EntryOrder(k)
    /\ \A k, n \in DOMAIN file : PairOrder(k, n)

OrderInv == QueueOrder /\ HandOrder /\ FileOrder

(* A file is closed since the f-th line was accepted: the lines counted    *)
(* since say so, or the next line tries to open one.                       *)
ClosedSince(f) ==
    /\ Len(accepted) <= f + MAX_LINES
    /\ \/ lineCount <= MAX_LINES /\ Len(accepted) = f + lineCount
       \/ lineCount > 0 /\ lineCount % MAX_LINES = 0

LostInv ==
    /\ \A l \in lost : Accepted(l)
    /\ \A k \in DOMAIN accepted :
          accepted[k] \in lost => \E f \in failures : k <= f + MAX_LINES
    /\ ~streamOpen => \E f \in failures : ClosedSince(f)

IInv == /\ TypeOK /\ MutexInv /\ WriterInv /\ DayInv /\ LineInv /\ KeptInv
        /\ OrderInv /\ LostInv

-----------------------------------------------------------------------------
(* What the steps come to in a state of the invariant.                     *)

LEMMA InitIInv == Init => IInv
<1> SUFFICES ASSUME Init PROVE IInv
  OBVIOUS
<1> USE DEF Init, Q!Init, Q!Threads, Q!Takers
<1>1. TypeOK
  <2>1. Q!TypeOK
    BY EmptySeq DEF Q!TypeOK
  <2> QED  BY <2>1, SizeAssumption DEF TypeOK, FileName
<1>2. MutexInv /\ WriterInv /\ DayInv
  BY SizeAssumption, RoleAssumption DEF MutexInv, WriterInv, DayInv, Holds
<1>3. LineInv
  BY DEF LineInv, Holds, NoLine
<1>4. KeptInv /\ OrderInv /\ LostInv
  BY DEF KeptInv, OrderInv, QueueOrder, HandOrder, FileOrder, LostInv
<1> QED  BY <1>1, <1>2, <1>3, <1>4 DEF IInv

(* Push neither waits nor resumes: the queue has room.                     *)
LEMMA PushEffect ==
    ASSUME IInv, NEW t \in Loggers, WritePush(t)
    PROVE  /\ stage[t] = "push" /\ line[t] \in Lines /\ WriteReturn(t)
           /\ queue' = Append(queue, line[t])
           /\ pc' = [pc EXCEPT ![t] = "idle"]
           /\ arg' = [arg EXCEPT ![t] = Q!NoItem]
           /\ condConsumer' \subseteq condConsumer
           /\ UNCHANGED <<isClose, condProducer, ret>>
           /\ UNCHANGED <<outVars, file, lost, writer, destroyer, clock,
                          accepted, direct>>
<1>1. stage[t] = "push" /\ pc[t] = "idle" /\ ~Q!Full /\ line[t] \in Lines
  BY DEF IInv, MutexInv, LineInv, WritePush
<1>2. Q!PushItem(t, line[t])
  BY <1>1 DEF WritePush, Q!Push, Q!PushSleep, Q!PushResume, Q!PushWoken
<1>3. pc' = [pc EXCEPT ![t] = "idle"] /\ pc'[t] = "idle"
  BY <1>2 DEF Q!PushItem, IInv, TypeOK, Q!TypeOK, Q!Threads
<1>4. condConsumer' \subseteq condConsumer
  BY <1>2 DEF Q!PushItem, Q!NotifyOneConsumer
<1> QED  BY <1>1, <1>2, <1>3, <1>4 DEF WritePush, Q!PushItem

(* Pop takes the first line, or goes to sleep, or finds the queue closed.  *)
LEMMA PopEffect ==
    ASSUME IInv, WriterPop
    PROVE  /\ \/ /\ queue # <<>> /\ queue' = Tail(queue) /\ Head(queue) \in Lines
                 /\ ret' = [ret EXCEPT ![Writer] = Head(queue)]
                 /\ pc' = [pc EXCEPT ![Writer] = "idle"]
                 /\ writer' = "write" /\ condConsumer' = condConsumer
              \/ /\ queue' = queue /\ writer' = "pop"
                 /\ ret' = [ret EXCEPT ![Writer] = Q!Waiting]
                 /\ pc' = [pc EXCEPT ![Writer] = "pop"]
                 /\ condConsumer' = condConsumer \union {Writer}
              \/ /\ queue' = queue /\ writer' = "done"
                 /\ ret' = [ret EXCEPT ![Writer] = Q!Refused]
                 /\ pc' = [pc EXCEPT ![Writer] = "idle"]
                 /\ condConsumer' = condConsumer
           /\ writer = "pop" /\ condProducer' = {}
           /\ UNCHANGED <<isClose, arg>>
           /\ UNCHANGED <<mtx, stage, line, stamp, outVars, file, lost, destroyer,
                          clock, accepted, direct, kept>>
<1>0. /\ pc \in [Q!Threads -> {"idle", "push", "pop", "popFor", "expired",
                               "notifyProducers", "notifyConsumers"}]
      /\ ret \in [Q!Takers -> Lines \union {Q!Waiting, Q!Refused}]
      /\ Writer \in Q!Takers /\ Writer \in Q!Threads
      /\ condProducer = {} /\ pc[Writer] \in {"idle", "pop"} /\ queue \in Seq(Lines)
  BY DEF IInv, TypeOK, Q!TypeOK, MutexInv, WriterInv, Q!Takers, Q!Threads
<1>1. \/ Q!PopItem(Writer) \/ Q!PopSleep(Writer, "pop") \/ Q!ReturnFalse(Writer)
  BY <1>0 DEF WriterPop, Q!Pop, Q!PopResume, Q!PopWoken
<1>2. CASE Q!PopItem(Writer)
  <2>1. queue # <<>> /\ Head(queue) \in Lines /\ Head(queue) # Q!Refused
    BY <1>0, <1>2, LineAssumption, HeadTailProperties DEF Q!PopItem, Q!Empty
  <2>2. pc'[Writer] = "idle" /\ ret'[Writer] = Head(queue) /\ condProducer' = {}
    BY <1>0, <1>2 DEF Q!PopItem, Q!NotifyOneProducer
  <2> QED  BY <1>2, <2>1, <2>2 DEF WriterPop, Q!PopItem
<1>3. CASE Q!PopSleep(Writer, "pop")
  BY <1>0, <1>3 DEF WriterPop, Q!PopSleep
<1>4. CASE Q!ReturnFalse(Writer)
  BY <1>0, <1>4 DEF WriterPop, Q!ReturnFalse
<1> QED  BY <1>1, <1>2, <1>3, <1>4

lineVars == <<queue, ret, writer, file, lost, accepted, direct, line, stage>>

(* Steps that move no line.                                                *)
Quiet ==
    \/ Midnight \/ Destroy \/ Drain \/ DrainFlush \/ CloseNotify \/ Join
    \/ SpuriousWakeup

LEMMA QuietEffect ==
    ASSUME IInv, Quiet
    PROVE  /\ UNCHANGED <<lineVars, mtx, stamp, outVars, kept, isClose, arg>>
           /\ condProducer' = {} /\ condConsumer' \subseteq condConsumer
           /\ clock' \in 0..LastDay
           /\ pc' = pc \/ \E s \in {"idle", "notifyConsumers"} :
                             pc' = [pc EXCEPT ![Destroyer] = s]
           /\ destroyer' \in {"alive", "drain", "flush", "close", "closing",
                              "join", "gone"}
<1> USE DEF Goto, logVars, outVars, qVars, lineVars
<1>0. condProducer = {} /\ clock \in 0..LastDay /\ TypeOK
  BY DEF IInv, MutexInv, DayInv
<1>1. CASE Midnight
  BY <1>0, <1>1, SizeAssumption DEF Midnight, TypeOK
<1>2. CASE Destroy \/ Drain \/ Join
  BY <1>0, <1>2 DEF Destroy, Drain, Join
<1>3. CASE DrainFlush
  BY <1>0, <1>3 DEF DrainFlush, Q!Flush, Q!NotifyOneConsumer
<1>4. CASE CloseNotify
  BY <1>0, <1>4 DEF CloseNotify, Q!CloseNotifyProducers, Q!CloseNotifyConsumers
<1>5. CASE SpuriousWakeup
  BY <1>0, <1>5 DEF SpuriousWakeup, Q!SpuriousWakeup, TypeOK
<1> QED  BY <1>1, <1>2, <1>3, <1>4, <1>5 DEF Quiet

LEMMA NextCases ==
    ASSUME Next
    PROVE  \/ Quiet \/ CloseQueue \/ WriterPop \/ WriterWrite
           \/ \E t \in Loggers : \/ \E l \in Lines : WriteStamp(t, l)
                                 \/ WriteLock(t) \/ WriteThrow(t) \/ WriteChoose(t)
                                 \/ WritePush(t) \/ WriteDirect(t)
  BY DEF Next, LoggerStep, DestroyerStep, Quiet

-----------------------------------------------------------------------------
(* Types, the mutex, the writer and the day are preserved.                 *)

LEMMA StepQTypeOK == IInv /\ Next => Q!TypeOK'
<1> SUFFICES ASSUME IInv, Next PROVE Q!TypeOK'
  OBVIOUS
<1> USE DEF Q!Takers, Q!Threads, outVars, qVars
<1>0. Q!TypeOK /\ \A t \in Loggers : pc[t] = "idle"
  BY DEF IInv, TypeOK, MutexInv
<1>1. CASE Quiet
  <2>1. /\ UNCHANGED <<queue, isClose, arg, ret>>
        /\ condProducer' = {} /\ condConsumer' \subseteq condConsumer
        /\ pc' = pc \/ \E s \in {"idle", "notifyConsumers"} :
                          pc' = [pc EXCEPT ![Destroyer] = s]
    BY <1>1, QuietEffect DEF lineVars
  <2>2. \A c \in Q!Takers : pc'[c] = pc[c]
    BY <1>0, <2>1, RoleAssumption DEF Q!TypeOK
  <2> QED  BY <1>0, <2>1, <2>2 DEF Q!TypeOK
<1>2. CASE CloseQueue
  <2>1. /\ queue' = <<>> /\ isClose' = TRUE
        /\ pc' = [pc EXCEPT ![Destroyer] = "notifyProducers"]
        /\ UNCHANGED <<condProducer, condConsumer, arg, ret>>
    BY <1>2 DEF CloseQueue, Q!Close
  <2>2. \A c \in Q!Takers \union Loggers : pc'[c] = pc[c]
    BY <1>0, <2>1, RoleAssumption DEF Q!TypeOK
  <2> QED  BY <1>0, <2>1, <2>2, EmptySeq DEF Q!TypeOK
<1>3. CASE WriterPop
  <2>1. Writer \in Q!Takers /\ Writer \in Q!Threads /\ queue' \in Seq(Lines)
    BY <1>0, <1>3, PopEffect, HeadTailProperties DEF Q!TypeOK
  <2>2. \A c \in condConsumer : c = Writer
    BY <1>0 DEF Q!TypeOK
  <2>3. \/ condConsumer' \subseteq {c \in Q!Takers : pc'[c] \in {"pop", "popFor"}}
        \/ pc'[Writer] = "idle" /\ condConsumer' = condConsumer
    BY <1>0, <1>3, <2>1, <2>2, PopEffect DEF Q!TypeOK
  <2>4. pc'[Writer] = "idle" /\ condConsumer' = condConsumer => Writer \notin condConsumer
    BY <1>0, <1>3, <2>1, PopEffect DEF Q!TypeOK, WriterPop, Q!Pop, Q!PopResume, Q!PopWoken
  <2>5. condConsumer' \subseteq {c \in Q!Takers : pc'[c] \in {"pop", "popFor"}}
    BY <2>2, <2>3, <2>4
  <2>6. /\ pc' \in [Q!Threads -> {"idle", "push", "pop", "popFor", "expired",
                                  "notifyProducers", "notifyConsumers"}]
        /\ ret' \in [Q!Takers -> Lines \union {Q!Waiting, Q!Refused}]
        /\ condProducer' = {} /\ UNCHANGED <<isClose, arg>>
    BY <1>0, <1>3, <2>1, PopEffect DEF Q!TypeOK
  <2> QED  BY <1>0, <2>1, <2>5, <2>6 DEF Q!TypeOK
<1>4. CASE WriterWrite
  BY <1>0, <1>4 DEF WriterWrite, Q!TypeOK
<1>5. ASSUME NEW t \in Loggers,
             \/ \E l \in Lines : WriteStamp(t, l)
             \/ WriteLock(t) \/ WriteThrow(t) \/ WriteChoose(t) \/ WriteDirect(t)
      PROVE  Q!TypeOK'
  BY <1>0, <1>5
  DEF WriteStamp, WriteLock, WriteThrow, WriteChoose, WriteDirect, Q!TypeOK
<1>6. ASSUME NEW t \in Loggers, WritePush(t)
      PROVE  Q!TypeOK'
  <2>1. /\ line[t] \in Lines /\ queue' = Append(queue, line[t])
        /\ pc' = [pc EXCEPT ![t] = "idle"]
        /\ arg' = [arg EXCEPT ![t] = Q!NoItem]
        /\ condConsumer' \subseteq condConsumer
        /\ UNCHANGED <<isClose, condProducer, ret>>
    BY <1>6, PushEffect
  <2>2. pc' = pc /\ queue' \in Seq(Lines)
    BY <1>0, <2>1, AppendProperties DEF Q!TypeOK
  <2> QED  BY <1>0, <2>1, <2>2 DEF Q!TypeOK
<1> QED  BY <1>1, <1>2, <1>3, <1>4, <1>5, <1>6, NextCases

LEMMA StepDayInv == IInv /\ Next => DayInv' /\ fileName' \in FileName
<1> SUFFICES ASSUME IInv, Next PROVE DayInv' /\ fileName' \in FileName
  OBVIOUS
<1> USE DEF DayInv, Holds, outVars
<1>0. /\ TypeOK /\ DayInv /\ MutexInv
  BY DEF IInv
<1>1. CASE Quiet
  BY <1>0, <1>1, QuietEffect DEF lineVars, TypeOK
<1>2. CASE CloseQueue \/ WriterPop \/ WriterWrite
  BY <1>0, <1>2 DEF CloseQueue, WriterPop, WriterWrite, Goto, TypeOK
<1>3. ASSUME NEW t \in Loggers, NEW l \in Lines, WriteStamp(t, l)
      PROVE  DayInv' /\ fileName' \in FileName
  BY <1>0, <1>3 DEF WriteStamp, TypeOK
<1>4. ASSUME NEW t \in Loggers, WriteLock(t)
      PROVE  DayInv' /\ fileName' \in FileName
  <2>1. stamp[t] \in 0..LastDay /\ \A u \in Loggers : ~Holds(u)
    BY <1>0, <1>4, RoleAssumption DEF WriteLock, TypeOK, MutexInv
  <2>2. \A n \in Nat : n \div MAX_LINES \in Nat
    BY SizeAssumption
  <2>3. today' = stamp[t] /\ lineCount' \in Nat
    BY <1>0, <1>4 DEF WriteLock, Rotate, Counted
  <2>4. \/ UNCHANGED <<fileName, streamOpen>> /\ today = stamp[t]
        \/ \E n \in Nat : fileName' = [day |-> stamp[t], part |-> n]
    BY <1>0, <1>4, <2>2 DEF WriteLock, Rotate, Rotates, Counted
  <2>5. fileName' \in FileName /\ (streamOpen' => fileName'.day = today')
    BY <1>0, <2>1, <2>3, <2>4 DEF TypeOK, FileName
  <2>6. \A u \in Loggers : Holds(u)' => today' = stamp'[u]
    BY <1>0, <1>4, <2>1, <2>3 DEF WriteLock, TypeOK
  <2>7. clock' \in 0..LastDay
    BY <1>0, <1>4 DEF WriteLock
  <2> QED  BY <2>1, <2>3, <2>5, <2>6, <2>7
<1>5. ASSUME NEW t \in Loggers, WriteThrow(t)
      PROVE  DayInv' /\ fileName' \in FileName
  <2>1. stamp[t] \in 0..LastDay /\ \A u \in Loggers : ~Holds(u)
    BY <1>0, <1>5, RoleAssumption DEF WriteThrow, TypeOK, MutexInv
  <2>2. today' = stamp[t] /\ lineCount' \in Nat /\ ~streamOpen'
    BY <1>0, <1>5 DEF WriteThrow, RotateFails, Counted
  <2>3. \A u \in Loggers : ~Holds(u)'
    BY <1>0, <1>5, <2>1 DEF WriteThrow, TypeOK
  <2>4. fileName' = fileName /\ clock' = clock
    BY <1>5 DEF WriteThrow, RotateFails
  <2> QED  BY <1>0, <2>1, <2>2, <2>3, <2>4 DEF TypeOK
<1>6. ASSUME NEW t \in Loggers, WriteChoose(t) \/ WritePush(t) \/ WriteDirect(t)
      PROVE  DayInv' /\ fileName' \in FileName
  <2>1. /\ UNCHANGED <<outVars, clock>> /\ Holds(t)
        /\ \A u \in Loggers : Holds(u)' => Holds(u) /\ stamp'[u] = stamp[u]
    BY <1>0, <1>6 DEF WriteChoose, WritePush, WriteDirect, WriteReturn, TypeOK
  <2>2. \A u \in Loggers : Holds(u)' => today' = stamp'[u]
    BY <1>0, <2>1
  <2> QED  BY <1>0, <2>1, <2>2 DEF TypeOK
<1> QED  BY <1>1, <1>2, <1>3, <1>4, <1>5, <1>6, NextCases

LEMMA StepMutexInv == IInv /\ Next => MutexInv'
<1> SUFFICES ASSUME IInv, Next PROVE MutexInv'
  OBVIOUS
<1> USE DEF MutexInv, Holds, outVars, qVars, Q!Takers, Q!Threads
<1>0. TypeOK /\ Q!TypeOK /\ MutexInv /\ queue \in Seq(Lines) /\ Len(queue) \in Nat
  BY LenProperties DEF IInv, TypeOK, Q!TypeOK
<1>1. CASE Quiet
  <2>1. \A t \in Loggers : pc'[t] = pc[t]
    BY <1>0, <1>1, QuietEffect, RoleAssumption DEF Q!TypeOK
  <2> QED  BY <1>0, <1>1, <2>1, QuietEffect DEF lineVars, Q!Full
<1>2. CASE CloseQueue
  <2>1. \A t \in Loggers : pc'[t] = pc[t]
    BY <1>0, <1>2, RoleAssumption DEF Q!TypeOK, CloseQueue, Q!Close
  <2>2. queue' = <<>> /\ Len(queue') = 0
    BY <1>2, EmptySeq DEF CloseQueue, Q!Close
  <2> QED
    BY <1>0, <1>2, <2>1, <2>2, SizeAssumption DEF CloseQueue, Q!Close, Goto, Q!Full
<1>3. CASE WriterPop
  <2>1. \A t \in Loggers : pc'[t] = pc[t]
    BY <1>0, <1>3, RoleAssumption, PopEffect DEF Q!TypeOK
  <2>2. Len(queue') \in Nat /\ Len(queue') <= Len(queue)
    BY <1>0, <1>3, PopEffect, HeadTailProperties
  <2> QED  BY <1>0, <1>3, <2>1, <2>2, PopEffect, SizeAssumption DEF Q!Full
<1>4. CASE WriterWrite
  BY <1>0, <1>4 DEF WriterWrite, Q!Full
<1>5. ASSUME NEW t \in Loggers,
             (\E l \in Lines : WriteStamp(t, l)) \/ WriteLock(t) \/ WriteThrow(t)
      PROVE  MutexInv'
  BY <1>0, <1>5, RoleAssumption DEF WriteStamp, WriteLock, WriteThrow, TypeOK, Q!Full
<1>6. ASSUME NEW t \in Loggers, WriteChoose(t)
      PROVE  MutexInv'
  BY <1>0, <1>6 DEF WriteChoose, TypeOK, Q!Full
<1>7. ASSUME NEW t \in Loggers, WritePush(t) \/ WriteDirect(t)
      PROVE  MutexInv'
  <2>1. /\ mtx = t /\ stage' = [stage EXCEPT ![t] = "idle"] /\ pc' = pc
        /\ condProducer' = {}
    BY <1>0, <1>7, PushEffect
    DEF WritePush, WriteDirect, WriteReturn, Q!TypeOK, Q!Threads, Q!Takers
  <2> QED  BY <1>0, <2>1 DEF TypeOK
<1> QED  BY <1>1, <1>2, <1>3, <1>4, <1>5, <1>6, <1>7, NextCases

LEMMA StepTypeOK == IInv /\ Next => TypeOK' /\ WriterInv'
<1> SUFFICES ASSUME IInv, Next PROVE TypeOK' /\ WriterInv'
  OBVIOUS
<1> USE DEF outVars, qVars, Q!Takers, Q!Threads
<1>0. /\ TypeOK /\ Q!TypeOK /\ DayInv /\ MutexInv /\ WriterInv
      /\ Q!TypeOK' /\ fileName' \in FileName
  BY StepQTypeOK, StepDayInv DEF IInv, TypeOK
<1>1. CASE Quiet
  <2>1. pc'[Writer] = pc[Writer]
    BY <1>0, <1>1, QuietEffect, RoleAssumption DEF Q!TypeOK
  <2> QED  BY <1>0, <1>1, <2>1, QuietEffect DEF lineVars, TypeOK, WriterInv
<1>2. CASE CloseQueue
  <2>1. pc'[Writer] = pc[Writer]
    BY <1>0, <1>2, RoleAssumption DEF CloseQueue, Q!Close, Q!TypeOK
  <2> QED  BY <1>0, <1>2, <2>1 DEF CloseQueue, Goto, Q!Close, TypeOK, WriterInv
<1>3. CASE WriterPop
  <2>1. Writer \in DOMAIN pc /\ Writer \in DOMAIN ret
    BY <1>0 DEF Q!TypeOK, Q!Threads, Q!Takers
  <2> QED  BY <1>0, <1>3, <2>1, PopEffect DEF TypeOK, WriterInv
<1>4. CASE WriterWrite
  BY <1>0, <1>4 DEF WriterWrite, Out, TypeOK, WriterInv
<1>5. ASSUME NEW t \in Loggers, NEW l \in Lines, WriteStamp(t, l)
      PROVE  TypeOK' /\ WriterInv'
  BY <1>0, <1>5 DEF WriteStamp, TypeOK, WriterInv, DayInv
<1>6. ASSUME NEW t \in Loggers, WriteLock(t) \/ WriteChoose(t)
      PROVE  TypeOK' /\ WriterInv'
  BY <1>0, <1>6 DEF WriteLock, Rotate, WriteChoose, TypeOK, WriterInv
<1>8. ASSUME NEW t \in Loggers, WriteThrow(t)
      PROVE  TypeOK' /\ WriterInv'
  <2>1. Len(accepted) \in Nat
    BY LenProperties DEF IInv, LineInv
  <2>2. streamOpen' \in BOOLEAN /\ failures' \subseteq Nat
    BY <1>0, <1>8, <2>1 DEF WriteThrow, RotateFails, TypeOK
  <2>3. /\ stage' = [stage EXCEPT ![t] = "idle"] /\ line' = [line EXCEPT ![t] = NoLine]
        /\ stamp' = [stamp EXCEPT ![t] = 0]
        /\ UNCHANGED <<qVars, mtx, lost, writer, destroyer>>
    BY <1>8 DEF WriteThrow
  <2> QED  BY <1>0, <2>2, <2>3, SizeAssumption DEF TypeOK, WriterInv
<1>7. ASSUME NEW t \in Loggers, WritePush(t) \/ WriteDirect(t)
      PROVE  TypeOK' /\ WriterInv'
  <2>1. /\ pc' = pc /\ UNCHANGED <<ret, writer, outVars, destroyer>> /\ WriteReturn(t)
        /\ lost' \subseteq Lines
    BY <1>0, <1>7, PushEffect
    DEF WriteDirect, Out, Q!TypeOK, Q!Threads, Q!Takers, MutexInv, TypeOK, IInv, LineInv,
        Holds
  <2> QED  BY <1>0, <2>1, SizeAssumption DEF WriteReturn, TypeOK, WriterInv
<1> QED  BY <1>1, <1>2, <1>3, <1>4, <1>5, <1>6, <1>7, <1>8, NextCases

-----------------------------------------------------------------------------
(* Where each line is.                                                     *)

LEMMA Sequences ==
    IInv => /\ queue \in Seq(Lines) /\ accepted \in Seq(Lines) /\ file \in Seq(Entry)
            /\ Len(queue) \in Nat /\ DOMAIN queue = 1..Len(queue)
            /\ Len(accepted) \in Nat /\ DOMAIN accepted = 1..Len(accepted)
            /\ Len(file) \in Nat /\ DOMAIN file = 1..Len(file)
  BY LenProperties DEF IInv, TypeOK, Q!TypeOK, LineInv

LEMMA TailView ==
    ASSUME NEW S, NEW s \in Seq(S), s # <<>>
    PROVE  /\ Head(s) = s[1] /\ 1 \in DOMAIN s
           /\ \A i \in DOMAIN Tail(s) : i + 1 \in DOMAIN s /\ Tail(s)[i] = s[i + 1]
           /\ \A x \in ToSet(s) : x = Head(s) \/ x \in ToSet(Tail(s))
<1>1. /\ Len(s) \in Nat /\ Len(s) # 0 /\ DOMAIN s = 1..Len(s) /\ Head(s) = s[1]
      /\ Tail(s) \in Seq(S) /\ Len(Tail(s)) = Len(s) - 1
      /\ \A i \in 1..Len(Tail(s)) : Tail(s)[i] = s[i + 1]
  BY EmptySeq, LenProperties, HeadTailProperties
<1>2. DOMAIN Tail(s) = 1..(Len(s) - 1)
  BY <1>1, LenProperties
<1>3. ASSUME NEW i \in DOMAIN s, i # 1
      PROVE  s[i] \in ToSet(Tail(s))
  <2>1. i - 1 \in DOMAIN Tail(s) /\ Tail(s)[i - 1] = s[i]
    BY <1>1, <1>2, <1>3
  <2> QED  BY <2>1 DEF ToSet
<1> QED  BY <1>1, <1>2, <1>3 DEF ToSet

LEMMA StepLineInv == IInv /\ Next => LineInv'
<1> SUFFICES ASSUME IInv, Next PROVE LineInv'
  OBVIOUS
<1> USE DEF Holds, outVars, qVars
<1>0. /\ TypeOK /\ MutexInv /\ WriterInv /\ LineInv /\ OrderInv /\ RoleAssumption
      /\ \A l \in Lines : l # NoLine
  BY RoleAssumption, LineAssumption DEF IInv
<1>1. CASE Quiet
  BY <1>0, <1>1, QuietEffect DEF lineVars, LineInv
<1>2. CASE CloseQueue
  BY <1>0, <1>2, EmptySeq DEF CloseQueue, Goto, Q!Close, LineInv
<1>3. CASE WriterPop
  <2>1. /\ \A i \in DOMAIN queue' : \E j \in DOMAIN queue : queue'[i] = queue[j]
        /\ writer' = "write" =>
              \E j \in DOMAIN queue : ret'[Writer] = queue[j]
    <3>1. queue \in Seq(Lines) /\ Writer \in DOMAIN ret
      BY <1>0, Sequences DEF TypeOK, Q!TypeOK, Q!Takers
    <3>2. CASE queue # <<>> /\ queue' = Tail(queue) /\ writer' = "write"
      <4>1. /\ Head(queue) = queue[1] /\ 1 \in DOMAIN queue
            /\ \A i \in DOMAIN Tail(queue) :
                  i + 1 \in DOMAIN queue /\ Tail(queue)[i] = queue[i + 1]
        BY <3>1, <3>2, TailView
      <4>2. ret'[Writer] = Head(queue)
        BY <1>3, <3>1, <3>2, PopEffect
      <4> QED  BY <3>2, <4>1, <4>2
    <3>3. CASE queue' = queue /\ writer' # "write"
      BY <3>3
    <3> QED  BY <1>3, <3>2, <3>3, PopEffect
  <2> QED  BY <1>0, <1>3, <2>1, PopEffect DEF LineInv
<1>4. CASE WriterWrite
  <2>1. \A t \in Loggers : ~Holds(t)
    BY <1>0, <1>4 DEF WriterWrite, MutexInv, RoleAssumption
  <2>2. [line |-> ret[Writer], name |-> fileName] \in Entry
    BY <1>0, <1>4 DEF WriterWrite, WriterInv, Entry, TypeOK
  <2>3. file' = Append(file, [line |-> ret[Writer], name |-> fileName]) \/ file' = file
    BY <1>4 DEF WriterWrite, Out
  <2>4. file' \in Seq(Entry)
    BY <2>2, <2>3, Sequences, AppendProperties
  <2> QED  BY <1>0, <1>4, <2>1, <2>4 DEF WriterWrite, LineInv
<1>5. ASSUME NEW t \in Loggers, NEW l \in Lines, WriteStamp(t, l)
      PROVE  LineInv'
  <2>1. /\ \A i \in DOMAIN accepted : accepted[i] # l
        /\ \A u \in Loggers : line[u] # l
    BY <1>5 DEF WriteStamp, ToSet
  <2>2. \A u \in Loggers :
           /\ line'[u] = IF u = t THEN l ELSE line[u]
           /\ stage'[u] = IF u = t THEN "stamped" ELSE stage[u]
    BY <1>0, <1>5 DEF WriteStamp, TypeOK
  <2>3. UNCHANGED <<accepted, file, queue, ret, writer, direct>>
    BY <1>5 DEF WriteStamp
  <2> QED  BY <1>0, <2>1, <2>2, <2>3 DEF LineInv
<1>6. ASSUME NEW t \in Loggers, WriteLock(t)
      PROVE  LineInv'
  <2>1. \A u \in Loggers :
           ~Holds(u) /\ stage'[u] = IF u = t THEN "locked" ELSE stage[u]
    BY <1>0, <1>6 DEF WriteLock, MutexInv, RoleAssumption, TypeOK
  <2>2. /\ line[t] \in Lines /\ line[t] # NoLine /\ stage[t] = "stamped"
        /\ \A i \in DOMAIN accepted : accepted[i] # line[t]
    BY <1>0, <1>6 DEF WriteLock, LineInv
  <2>3. /\ UNCHANGED <<line, file, queue, ret, writer, direct>>
        /\ accepted' = Append(accepted, line[t])
    BY <1>6 DEF WriteLock
  <2>4. /\ accepted' \in Seq(Lines) /\ accepted' # <<>>
        /\ Len(accepted') = Len(accepted) + 1 /\ DOMAIN accepted' = 1..(Len(accepted) + 1)
        /\ accepted'[Len(accepted')] = line[t]
        /\ \A i \in DOMAIN accepted : accepted'[i] = accepted[i]
    BY <2>2, <2>3, Sequences, AppendProperties
  <2>5. \A i, j \in DOMAIN accepted' : accepted'[i] = accepted'[j] => i = j
    BY <1>0, <2>2, <2>4, Sequences DEF LineInv
  <2>6. /\ line[t] \notin direct
        /\ \A i \in DOMAIN queue : queue[i] # line[t]
        /\ \A i \in DOMAIN file : file[i].line # line[t]
        /\ writer = "write" => ret[Writer] # line[t]
    BY <1>0, <2>2 DEF OrderInv, QueueOrder, HandOrder, FileOrder, EntryOrder,
                  Accepted
  <2>7. \A u \in Loggers : stage'[u] = "stamped" =>
           \A i \in DOMAIN accepted' : accepted'[i] # line[u]
    <3> SUFFICES ASSUME NEW u \in Loggers, stage'[u] = "stamped"
                 PROVE  \A i \in DOMAIN accepted' : accepted'[i] # line[u]
      OBVIOUS
    <3>1. u # t /\ stage[u] = "stamped"
      BY <2>1
    <3>2. line[u] # line[t]
      BY <1>0, <2>2, <3>1 DEF LineInv
    <3> QED  BY <1>0, <2>4, <3>1, <3>2, Sequences DEF LineInv
  <2>8. \A u, w \in Loggers : line'[u] = line'[w] /\ line'[u] # NoLine => u = w
    BY <1>0, <2>3 DEF LineInv
  <2> QED
    BY <1>0, <2>1, <2>2, <2>3, <2>4, <2>5, <2>6, <2>7, <2>8, Sequences DEF LineInv
<1>7. ASSUME NEW t \in Loggers, WriteChoose(t)
      PROVE  LineInv'
  <2>1. /\ UNCHANGED <<line, file, queue, ret, writer, direct, accepted>> /\ Holds(t)
        /\ \A u \in Loggers : stage'[u] = IF u = t THEN IF Q!Full THEN "direct" ELSE "push"
                                          ELSE stage[u]
    BY <1>0, <1>7 DEF WriteChoose, TypeOK
  <2>2. \A u \in Loggers : /\ Holds(u)' <=> Holds(u)
                           /\ stage'[u] = "stamped" <=> stage[u] = "stamped"
                           /\ stage'[u] = "idle" <=> stage[u] = "idle"
    BY <2>1
  <2> QED  BY <1>0, <2>1, <2>2 DEF LineInv
<1>8. ASSUME NEW t \in Loggers, WritePush(t) \/ WriteDirect(t)
      PROVE  LineInv'
  <2>1. /\ UNCHANGED <<ret, writer, accepted>> /\ mtx = t /\ WriteReturn(t)
        /\ line[t] \in Lines
    BY <1>0, <1>8, PushEffect DEF WriteDirect, MutexInv, LineInv
  <2>2. \A u \in Loggers :
           /\ Holds(u) => u = t
           /\ line'[u] = IF u = t THEN NoLine ELSE line[u]
           /\ stage'[u] = IF u = t THEN "idle" ELSE stage[u]
    BY <1>0, <2>1 DEF WriteReturn, MutexInv, TypeOK
  <2>3. file' \in Seq(Entry)
    <3>1. CASE WritePush(t)
      BY <3>1, PushEffect, Sequences
    <3>2. CASE WriteDirect(t)
      <4>1. [line |-> line[t], name |-> fileName] \in Entry
        BY <1>0, <2>1 DEF Entry, TypeOK
      <4>2. file' = Append(file, [line |-> line[t], name |-> fileName]) \/ file' = file
        BY <3>2 DEF WriteDirect, Out
      <4>3. file \in Seq(Entry)
        BY <1>0 DEF LineInv
      <4>4. Append(file, [line |-> line[t], name |-> fileName]) \in Seq(Entry)
        <5> DEFINE e == [line |-> line[t], name |-> fileName]
        <5>1. e \in Entry
          BY <4>1
        <5> HIDE DEF e
        <5>2. Append(file, e) \in Seq(Entry)
          BY <4>3, <5>1, AppendProperties
        <5> QED  BY <5>2 DEF e
      <4> QED  BY <4>2, <4>3, <4>4
    <3> QED  BY <1>8, <3>1, <3>2
  <2>4. \A u \in Loggers : ~Holds(u)'
    BY <2>2
  <2> QED  BY <1>0, <2>1, <2>2, <2>3, <2>4 DEF LineInv
<1>9. ASSUME NEW t \in Loggers, WriteThrow(t)
      PROVE  LineInv'
  <2>1. /\ UNCHANGED <<accepted, file, queue, ret, writer, direct>>
        /\ \A u \in Loggers : ~Holds(u)
    BY <1>0, <1>9 DEF WriteThrow, MutexInv, RoleAssumption
  <2>2. \A u \in Loggers :
           /\ line'[u] = IF u = t THEN NoLine ELSE line[u]
           /\ stage'[u] = IF u = t THEN "idle" ELSE stage[u]
    BY <1>0, <1>9 DEF WriteThrow, TypeOK
  <2> QED  BY <1>0, <2>1, <2>2 DEF LineInv
<1> QED  BY <1>1, <1>2, <1>3, <1>4, <1>5, <1>6, <1>7, <1>8, <1>9, NextCases

-----------------------------------------------------------------------------
(* Nothing is lost.                                                        *)

LEMMA AppendKeeps ==
    ASSUME NEW S, NEW s \in Seq(S), NEW e
    PROVE  ToSet(Append(s, e)) = ToSet(s) \union {e}
<1>1. /\ Len(s) \in Nat /\ DOMAIN s = 1..Len(s)
      /\ DOMAIN Append(s, e) = 1..(Len(s) + 1)
      /\ Append(s, e)[Len(s) + 1] = e
      /\ \A i \in 1..Len(s) : Append(s, e)[i] = s[i]
  BY LenProperties
<1> QED  BY <1>1 DEF ToSet

LEMMA StepWritten ==
    ASSUME IInv, NEW l \in Lines, Out(l)
    PROVE  Written' \union lost' = Written \union lost \union {l}
<1>1. CASE streamOpen
  <2>0. file' = Append(file, [line |-> l, name |-> fileName]) /\ lost' = lost
    BY <1>1 DEF Out
  <2>1. /\ DOMAIN file = 1..Len(file) /\ Len(file) \in Nat
        /\ DOMAIN file' = 1..(Len(file) + 1)
        /\ file'[Len(file) + 1].line = l
        /\ \A i \in 1..Len(file) : file'[i] = file[i]
    BY <2>0, Sequences
  <2>2. Written' = Written \union {l}
    BY <2>1 DEF Written
  <2> QED  BY <2>0, <2>2
<1>2. CASE ~streamOpen
  BY <1>2 DEF Out, Written
<1> QED  BY <1>1, <1>2

LEMMA StepKeptInv == IInv /\ Next => KeptInv'
<1> SUFFICES ASSUME IInv, Next PROVE KeptInv'
  OBVIOUS
<1> USE DEF KeptInv, outVars, qVars
<1>0. TypeOK /\ KeptInv /\ queue \in Seq(Lines) /\ Writer \in DOMAIN ret
  BY Sequences DEF IInv, TypeOK, Q!TypeOK, Q!Takers
<1>1. CASE Quiet
  <2>1. UNCHANGED <<Written, lost, InHand, kept, queue>>
    BY <1>1, QuietEffect DEF lineVars, Written, InHand
  <2>2. \/ destroyer' \in {"close", "closing", "join", "gone"} =>
              destroyer \in {"close", "closing", "join", "gone"}
        \/ queue = <<>>
    BY <1>1, QuietEffect
    DEF Quiet, Midnight, Destroy, Drain, DrainFlush, CloseNotify, Join, SpuriousWakeup,
        Goto, logVars, Q!Empty
  <2>3. queue = <<>> => ToSet(queue) = {}
    BY DEF ToSet
  <2> QED  BY <1>0, <2>1, <2>2, <2>3
<1>2. CASE CloseQueue
  <2>1. UNCHANGED <<Written, lost, InHand, kept>>
    BY <1>2 DEF CloseQueue, Goto, Q!Close, Written, InHand
  <2> QED  BY <1>0, <1>2, <2>1 DEF CloseQueue, Goto
<1>3. CASE WriterPop
  <2>1. UNCHANGED <<Written, lost, kept, destroyer>> /\ InHand = {}
    BY <1>3, PopEffect DEF Written, InHand
  <2>2. CASE queue # <<>> /\ queue' = Tail(queue) /\ writer' = "write"
    <3>1. InHand' = {Head(queue)}
      BY <1>0, <1>3, <2>2, PopEffect DEF InHand
    <3>2. \A x \in ToSet(queue) : x = Head(queue) \/ x \in ToSet(Tail(queue))
      BY <1>0, <2>2, TailView
    <3> QED  BY <1>0, <2>1, <2>2, <3>1, <3>2
  <2>3. CASE queue' = queue
    BY <1>0, <2>1, <2>3
  <2> QED  BY <1>3, <2>2, <2>3, PopEffect
<1>4. CASE WriterWrite
  <2>1. ret[Writer] \in Lines /\ InHand = {ret[Writer]}
    BY <1>4 DEF WriterWrite, IInv, WriterInv, InHand
  <2>2. /\ Written' \union lost' = Written \union lost \union {ret[Writer]}
        /\ UNCHANGED <<queue, kept, destroyer>>
    BY <1>4, <2>1, StepWritten DEF WriterWrite
  <2> QED  BY <1>0, <2>1, <2>2
<1>5. ASSUME NEW t \in Loggers,
             \/ \E l \in Lines : WriteStamp(t, l)
             \/ WriteLock(t) \/ WriteThrow(t) \/ WriteChoose(t)
      PROVE  KeptInv'
  <2>1. UNCHANGED <<file, lost, writer, ret, queue, kept, destroyer>>
    BY <1>5 DEF WriteStamp, WriteLock, WriteThrow, WriteChoose
  <2>2. UNCHANGED <<Written, InHand>>
    BY <2>1 DEF Written, InHand
  <2> QED  BY <1>0, <2>1, <2>2
<1>6. ASSUME NEW t \in Loggers, WritePush(t)
      PROVE  KeptInv'
  <2>1. /\ UNCHANGED <<file, lost, writer, ret, destroyer>>
        /\ queue' = Append(queue, line[t]) /\ WriteReturn(t)
    BY <1>6, PushEffect
  <2>2. UNCHANGED <<Written, InHand>>
    BY <2>1 DEF Written, InHand
  <2>3. ToSet(queue)' = ToSet(queue) \union {line[t]}
    BY <1>0, <2>1, AppendKeeps
  <2>4. destroyer # "alive" => kept' = kept
    BY <2>1 DEF WriteReturn
  <2> QED  BY <1>0, <2>1, <2>2, <2>3, <2>4 DEF WriteReturn
<1>7. ASSUME NEW t \in Loggers, WriteDirect(t)
      PROVE  KeptInv'
  <2>1. /\ UNCHANGED <<queue, InHand, destroyer>> /\ line[t] \in Lines /\ WriteReturn(t)
        /\ Out(line[t])
    BY <1>7 DEF WriteDirect, InHand, IInv, LineInv
  <2>2. Written' \union lost' = Written \union lost \union {line[t]}
    BY <2>1, StepWritten
  <2> QED  BY <1>0, <2>1, <2>2 DEF WriteReturn
<1> QED  BY <1>1, <1>2, <1>3, <1>4, <1>5, <1>6, <1>7, NextCases

-----------------------------------------------------------------------------
(* The order of the calls is the order in which the lines travel.          *)

LEMMA LaterIsLast ==
    ASSUME IInv, NEW t \in Loggers, Holds(t), NEW l, Accepted(l), l # line[t]
    PROVE  Before(l, line[t])
<1>1. PICK i \in DOMAIN accepted : accepted[i] = l
  BY DEF Accepted
<1>2. Len(accepted) \in DOMAIN accepted /\ accepted[Len(accepted)] = line[t]
  BY Sequences, EmptySeq DEF IInv, LineInv
<1>3. i < Len(accepted)
  BY <1>1, <1>2, Sequences
<1> QED  BY <1>1, <1>2, <1>3 DEF Before

LEMMA BeforeIsStrict ==
    ASSUME IInv, NEW l, NEW m, Before(l, m)
    PROVE  l # m /\ ~Before(m, l)
<1>1. \A i, j \in DOMAIN accepted : accepted[i] = accepted[j] => i = j
  BY DEF IInv, LineInv
<1>2. \A i \in DOMAIN accepted : i \in Nat
  BY Sequences
<1> QED  BY <1>1, <1>2 DEF Before

LEMMA OrderStays ==
    ASSUME IInv, Next
    PROVE  \A l, m : /\ Before(l, m) => Before(l, m)'
                     /\ Accepted(l) => Accepted(l)'
<1>1. accepted' = accepted \/ \E x : accepted' = Append(accepted, x)
  <2>1. Quiet => accepted' = accepted
    BY QuietEffect DEF lineVars
  <2>2. \A t \in Loggers : WritePush(t) => accepted' = accepted
    BY PushEffect
  <2> QED
    BY <2>1, <2>2, NextCases
    DEF CloseQueue, Goto, WriterPop, WriterWrite, WriteStamp, WriteLock, WriteThrow,
        WriteChoose, WriteDirect
<1>2. \A i \in DOMAIN accepted : i \in DOMAIN accepted' /\ accepted'[i] = accepted[i]
  BY <1>1, Sequences
<1> QED  BY <1>2 DEF Before, Accepted

(* The places as sequences of lines, and what a step may do to them.       *)
LEMMA StepOrderInv == IInv /\ Next => OrderInv'
<1> SUFFICES ASSUME IInv, Next PROVE OrderInv'
  OBVIOUS
<1> USE DEF outVars, qVars, OrderInv, EntryOrder, PairOrder
<1>0. /\ TypeOK /\ LineInv /\ OrderInv /\ MutexInv /\ WriterInv /\ Writer \in DOMAIN ret
      /\ queue \in Seq(Lines) /\ Len(queue) \in Nat /\ DOMAIN queue = 1..Len(queue)
      /\ Len(file) \in Nat /\ DOMAIN file = 1..Len(file)
  BY Sequences DEF IInv, TypeOK, Q!TypeOK, Q!Takers
<1>1. \A l, m : /\ Before(l, m) => Before(l, m)'
                /\ Accepted(l) => Accepted(l)'
  BY OrderStays
<1>2. \A l, m : Before(l, m) => l # m
  BY BeforeIsStrict
<1>3. CASE Quiet
  <2>1. UNCHANGED lineVars
    BY <1>3, QuietEffect
  <2> QED  BY <1>0, <1>1, <2>1 DEF lineVars, QueueOrder, HandOrder, FileOrder
<1>4. CASE CloseQueue
  <2>1. queue' = <<>> /\ UNCHANGED <<ret, writer, file, direct>>
    BY <1>4 DEF CloseQueue, Goto, Q!Close
  <2>2. DOMAIN queue' = {}
    BY <2>1
  <2>3. QueueOrder' /\ HandOrder'
    BY <1>0, <1>1, <2>1, <2>2 DEF QueueOrder, HandOrder
  <2>4. FileOrder'
    BY <1>0, <1>1, <2>1, <2>2 DEF FileOrder
  <2> QED  BY <2>3, <2>4
<1>5. CASE WriterPop
  <2>0. UNCHANGED <<file, direct>> /\ writer = "pop"
    BY <1>5, PopEffect
  <2>1. CASE queue # <<>> /\ queue' = Tail(queue) /\ writer' = "write"
    <3>1. /\ ret'[Writer] = queue[1] /\ 1 \in DOMAIN queue
          /\ \A i \in DOMAIN queue' : i + 1 \in DOMAIN queue /\ queue'[i] = queue[i + 1]
      BY <1>0, <1>5, <2>1, PopEffect, TailView
    <3>2. \A i, j \in DOMAIN queue' : i < j => i + 1 < j + 1 /\ i \in Nat /\ j \in Nat
      BY <1>0, <2>1, HeadTailProperties, LenProperties
    <3>3. \A i \in DOMAIN queue' : 1 < i + 1
      BY <1>0, <2>1, HeadTailProperties, LenProperties
    <3>4. QueueOrder'
      BY <1>0, <1>1, <2>0, <3>1, <3>2 DEF QueueOrder
    <3>5. HandOrder'
      <4>1. \A i \in DOMAIN queue' : Before(queue[1], queue[i + 1])
        BY <1>0, <3>1, <3>3 DEF QueueOrder
      <4> QED  BY <1>0, <1>1, <2>0, <3>1, <4>1 DEF QueueOrder, HandOrder
    <3>6. FileOrder'
      BY <1>0, <1>1, <2>0, <3>1 DEF FileOrder
    <3> QED  BY <3>4, <3>5, <3>6
  <2>2. CASE queue' = queue /\ writer' # "write"
    BY <1>0, <1>1, <2>0, <2>2 DEF QueueOrder, HandOrder, FileOrder
  <2> QED  BY <1>5, <2>1, <2>2, PopEffect
<1>6. CASE WriterWrite /\ streamOpen
  <2>0. /\ UNCHANGED <<queue, direct>> /\ writer' = "pop" /\ writer = "write"
        /\ DOMAIN file' = 1..(Len(file) + 1)
        /\ file'[Len(file) + 1].line = ret[Writer]
        /\ \A k \in DOMAIN file : file'[k] = file[k]
    BY <1>0, <1>6 DEF WriterWrite, Out
  <2>1. \A k \in DOMAIN file : file[k].line # ret[Writer]
    BY <1>0, <1>2, <2>0 DEF QueueOrder, HandOrder, FileOrder
  <2>2. \A k, n \in DOMAIN file' :
           /\ k = Len(file) + 1 \/ k \in DOMAIN file
           /\ k < n => k \in DOMAIN file
    BY <1>0, <2>0
  <2>3. QueueOrder' /\ HandOrder'
    BY <1>0, <1>1, <2>0 DEF QueueOrder, HandOrder
  <2>4. ASSUME NEW k \in DOMAIN file'
        PROVE  EntryOrder(k)'
    <3>1. CASE k \in DOMAIN file
      BY <1>0, <1>1, <2>0, <3>1 DEF FileOrder
    <3>2. CASE k = Len(file) + 1
      BY <1>0, <1>1, <2>0, <3>2 DEF HandOrder
    <3> QED  BY <2>2, <3>1, <3>2
  <2>5. ASSUME NEW k \in DOMAIN file', NEW n \in DOMAIN file'
        PROVE  PairOrder(k, n)'
    <3>1. CASE k \in DOMAIN file /\ n \in DOMAIN file
      BY <1>0, <1>1, <2>0, <3>1 DEF FileOrder
    <3>2. CASE k \in DOMAIN file /\ n = Len(file) + 1
      BY <1>0, <1>1, <2>0, <2>1, <3>2 DEF FileOrder
    <3>3. CASE k = Len(file) + 1
      BY <2>0, <2>1, <2>2, <3>3
    <3> QED  BY <2>2, <3>1, <3>2, <3>3
  <2>6. FileOrder'
    BY <1>0, <1>1, <2>0, <2>4, <2>5 DEF FileOrder
  <2> QED  BY <2>3, <2>6
<1>10. CASE WriterWrite /\ ~streamOpen
  <2>1. UNCHANGED <<queue, file, direct>> /\ writer' = "pop"
    BY <1>10 DEF WriterWrite, Out
  <2> QED  BY <1>0, <1>1, <2>1 DEF QueueOrder, HandOrder, FileOrder
<1>7. ASSUME NEW t \in Loggers,
             \/ \E l \in Lines : WriteStamp(t, l)
             \/ WriteLock(t) \/ WriteThrow(t) \/ WriteChoose(t)
      PROVE  OrderInv'
  <2>1. UNCHANGED <<queue, ret, writer, file, direct>>
    BY <1>7 DEF WriteStamp, WriteLock, WriteThrow, WriteChoose
  <2> QED  BY <1>0, <1>1, <2>1 DEF QueueOrder, HandOrder, FileOrder
<1>8. ASSUME NEW t \in Loggers, WritePush(t)
      PROVE  OrderInv'
  <2>1. /\ UNCHANGED <<ret, writer, file, direct>> /\ Holds(t)
        /\ queue' = Append(queue, line[t])
    BY <1>8, PushEffect DEF Holds
  <2>2. /\ DOMAIN queue' = 1..(Len(queue) + 1) /\ queue'[Len(queue) + 1] = line[t]
        /\ \A i \in DOMAIN queue : queue'[i] = queue[i]
        /\ \A i, j \in DOMAIN queue' : /\ i = Len(queue) + 1 \/ i \in DOMAIN queue
                                       /\ i < j => i \in DOMAIN queue
    BY <1>0, <2>1
  <2>3. /\ Accepted(line[t]) /\ line[t] \notin direct
        /\ \A i \in DOMAIN queue : queue[i] # line[t]
        /\ \A k \in DOMAIN file : file[k].line # line[t]
        /\ writer = "write" => ret[Writer] # line[t]
    BY <1>0, <2>1, Sequences, EmptySeq DEF LineInv, Accepted
  <2>4. \A l : Accepted(l) /\ l # line[t] => Before(l, line[t])
    BY <2>1, LaterIsLast
  <2> QED  BY <1>0, <1>1, <2>1, <2>2, <2>3, <2>4 DEF QueueOrder, HandOrder, FileOrder
<1>9. ASSUME NEW t \in Loggers, WriteDirect(t), streamOpen
      PROVE  OrderInv'
  <2>1. /\ UNCHANGED <<queue, ret, writer>> /\ Holds(t)
        /\ direct' = direct \union {line[t]}
        /\ DOMAIN file' = 1..(Len(file) + 1)
        /\ file'[Len(file) + 1].line = line[t]
        /\ \A k \in DOMAIN file : file'[k] = file[k]
    BY <1>0, <1>9 DEF WriteDirect, Out, Holds
  <2>2. \A k, n \in DOMAIN file' :
           /\ k = Len(file) + 1 \/ k \in DOMAIN file
           /\ k < n => k \in DOMAIN file
    BY <1>0, <2>1
  <2>3. /\ Accepted(line[t])
        /\ \A i \in DOMAIN queue : queue[i] # line[t]
        /\ \A k \in DOMAIN file : file[k].line # line[t]
        /\ writer = "write" => ret[Writer] # line[t]
    BY <1>0, <2>1, Sequences, EmptySeq DEF LineInv, Accepted
  <2>4. QueueOrder' /\ HandOrder'
    BY <1>0, <1>1, <2>1, <2>3 DEF QueueOrder, HandOrder
  <2>5. ASSUME NEW k \in DOMAIN file'
        PROVE  EntryOrder(k)'
    <3>1. CASE k \in DOMAIN file
      BY <1>0, <1>1, <2>1, <3>1 DEF FileOrder
    <3>2. CASE k = Len(file) + 1
      BY <1>1, <2>1, <2>3, <3>2
    <3> QED  BY <2>2, <3>1, <3>2
  <2>6. ASSUME NEW k \in DOMAIN file', NEW n \in DOMAIN file'
        PROVE  PairOrder(k, n)'
    <3>1. CASE k \in DOMAIN file /\ n \in DOMAIN file
      BY <1>0, <1>1, <2>1, <3>1 DEF FileOrder
    <3>2. CASE k \in DOMAIN file /\ n = Len(file) + 1
      BY <1>0, <2>1, <2>3, <3>2
    <3>3. CASE k = Len(file) + 1
      BY <2>1, <2>2, <2>3, <3>3
    <3> QED  BY <2>2, <3>1, <3>2, <3>3
  <2>7. FileOrder'
    BY <1>0, <1>1, <2>1, <2>3, <2>5, <2>6 DEF FileOrder
  <2> QED  BY <2>4, <2>7
<1>11. ASSUME NEW t \in Loggers, WriteDirect(t), ~streamOpen
       PROVE  OrderInv'
  <2>1. /\ UNCHANGED <<queue, ret, writer, file>> /\ Holds(t)
        /\ direct' = direct \union {line[t]}
    BY <1>0, <1>11 DEF WriteDirect, Out, Holds
  <2>2. /\ Accepted(line[t])
        /\ \A i \in DOMAIN queue : queue[i] # line[t]
        /\ writer = "write" => ret[Writer] # line[t]
    BY <1>0, <2>1, Sequences, EmptySeq DEF LineInv, Accepted
  <2> QED  BY <1>0, <1>1, <2>1, <2>2 DEF QueueOrder, HandOrder, FileOrder
<1> QED  BY <1>3, <1>4, <1>5, <1>6, <1>7, <1>8, <1>9, <1>10, <1>11, NextCases

-----------------------------------------------------------------------------
(* Lines are lost while the file is closed only.                           *)

LEMMA LastLine ==
    ASSUME IInv, NEW t \in Loggers, Holds(t)
    PROVE  line[t] \in Lines /\ Accepted(line[t])
<1>1. accepted # <<>> /\ line[t] = accepted[Len(accepted)] /\ stage[t] # "idle"
  BY DEF IInv, LineInv, Holds
<1>2. Len(accepted) \in DOMAIN accepted
  BY <1>1, Sequences, EmptySeq
<1> QED  BY <1>1, <1>2 DEF IInv, LineInv, Accepted

(* What comes to a closed stream was accepted before, or not long after,   *)
(* the file was closed.                                                    *)
LEMMA OutKeepsLost ==
    ASSUME IInv, NEW l, Accepted(l), Out(l), UNCHANGED <<accepted, outVars>>
    PROVE  LostInv'
<1>0. LostInv /\ Len(accepted) \in Nat /\ DOMAIN accepted = 1..Len(accepted)
      /\ failures \subseteq Nat /\ MAX_LINES \in Nat
  BY Sequences, SizeAssumption DEF IInv, TypeOK
<1>1. CASE streamOpen
  BY <1>0, <1>1 DEF Out, outVars, LostInv, Accepted, ClosedSince
<1>2. CASE ~streamOpen
  <2>1. PICK f \in failures : ClosedSince(f)
    BY <1>0, <1>2 DEF LostInv
  <2>2. f \in Nat
    BY <1>0, <2>1
  <2>3. \A k \in DOMAIN accepted : k <= f + MAX_LINES
    BY <1>0, <2>1, <2>2 DEF ClosedSince
  <2>4. \A m \in lost' : Accepted(m)
    BY <1>0, <1>2 DEF Out, LostInv
  <2> QED  BY <1>0, <1>2, <2>1, <2>3, <2>4 DEF outVars, LostInv, Accepted, ClosedSince
<1> QED  BY <1>1, <1>2

LEMMA FullCount == MAX_LINES % MAX_LINES = 0
  BY SizeAssumption, Z3

(* While the file is closed, the next line is the next one counted.        *)
LEMMA LockKeepsLost ==
    ASSUME IInv, NEW t \in Loggers, WriteLock(t)
    PROVE  LostInv'
<1>0. /\ LostInv /\ lineCount \in Nat /\ MAX_LINES \in Nat /\ failures \subseteq Nat
      /\ stage[t] = "stamped" /\ UNCHANGED <<lost, failures>>
      /\ accepted' = Append(accepted, line[t])
  BY SizeAssumption DEF IInv, TypeOK, DayInv, WriteLock, Rotate
<1>1. /\ Len(accepted) \in Nat /\ DOMAIN accepted = 1..Len(accepted)
      /\ Len(accepted') = Len(accepted) + 1 /\ DOMAIN accepted' = 1..(Len(accepted) + 1)
      /\ accepted'[Len(accepted) + 1] = line[t]
      /\ \A i \in DOMAIN accepted : accepted'[i] = accepted[i]
  BY <1>0, Sequences, AppendProperties
<1>2. line[t] \notin lost
  BY <1>0 DEF IInv, LineInv, LostInv, Accepted
<1>3. \A k \in DOMAIN accepted' :
         accepted'[k] \in lost => \E f \in failures : k <= f + MAX_LINES
  BY <1>0, <1>1, <1>2 DEF LostInv
<1>4. \A m \in lost : Accepted(m)'
  BY <1>0, <1>1 DEF LostInv, Accepted
<1>5. ASSUME ~streamOpen'
      PROVE  \E f \in failures : ClosedSince(f)'
  <2>1. ~Rotates(stamp[t]) /\ ~streamOpen /\ lineCount' = lineCount + 1
    BY <1>5 DEF WriteLock, Rotate, Rotates, Counted
  <2>2. PICK f \in failures : ClosedSince(f)
    BY <1>0, <2>1 DEF LostInv
  <2>3. lineCount <= MAX_LINES /\ Len(accepted) = f + lineCount
    BY <2>1, <2>2 DEF ClosedSince, Rotates
  <2>4. lineCount # MAX_LINES
    BY <2>1, FullCount, SizeAssumption DEF Rotates
  <2>5. f \in Nat
    BY <1>0, <2>2
  <2>6. lineCount' <= MAX_LINES /\ Len(accepted') = f + lineCount'
    BY <1>0, <1>1, <2>1, <2>3, <2>4, <2>5
  <2>7. ClosedSince(f)'
    BY <1>0, <2>1, <2>5, <2>6 DEF ClosedSince
  <2> QED  BY <1>0, <2>2, <2>7
<1> QED  BY <1>0, <1>3, <1>4, <1>5 DEF LostInv

LEMMA ThrowKeepsLost ==
    ASSUME IInv, NEW t \in Loggers, WriteThrow(t)
    PROVE  LostInv'
<1>0. /\ LostInv /\ lineCount \in Nat /\ MAX_LINES \in Nat /\ Len(accepted) \in Nat
      /\ UNCHANGED <<lost, accepted>> /\ failures' = failures \union {Len(accepted)}
      /\ lineCount' = Counted(stamp[t]) /\ Rotates(stamp[t])
  BY SizeAssumption, Sequences DEF IInv, DayInv, WriteThrow, RotateFails
<1>1. lineCount' = 0 \/ (lineCount' > 0 /\ lineCount' % MAX_LINES = 0)
  BY <1>0 DEF Rotates, Counted
<1>2. ClosedSince(Len(accepted))'
  BY <1>0, <1>1 DEF ClosedSince
<1> QED  BY <1>0, <1>2 DEF LostInv, Accepted

LEMMA StepLostInv == IInv /\ Next => LostInv'
<1> SUFFICES ASSUME IInv, Next PROVE LostInv'
  OBVIOUS
<1>0. LostInv
  BY DEF IInv
<1>1. ASSUME UNCHANGED <<accepted, lost, outVars>>
      PROVE  LostInv'
  BY <1>0, <1>1 DEF LostInv, outVars, Accepted, ClosedSince
<1>2. CASE Quiet
  BY <1>1, <1>2, QuietEffect DEF lineVars
<1>3. CASE CloseQueue \/ WriterPop
  BY <1>1, <1>3, PopEffect DEF CloseQueue, Goto
<1>4. CASE WriterWrite
  <2>1. Accepted(ret[Writer])
    BY <1>4 DEF IInv, OrderInv, HandOrder, WriterWrite
  <2> QED  BY <1>4, <2>1, OutKeepsLost DEF WriterWrite
<1>5. ASSUME NEW t \in Loggers,
             (\E l \in Lines : WriteStamp(t, l)) \/ WriteChoose(t) \/ WritePush(t)
      PROVE  LostInv'
  BY <1>1, <1>5, PushEffect DEF WriteStamp, WriteChoose
<1>6. ASSUME NEW t \in Loggers, WriteDirect(t)
      PROVE  LostInv'
  BY <1>6, LastLine, OutKeepsLost DEF WriteDirect, Holds
<1> QED
  BY <1>2, <1>3, <1>4, <1>5, <1>6, LockKeepsLost, ThrowKeepsLost, NextCases

-----------------------------------------------------------------------------
LEMMA IInvHolds == Spec => []IInv
<1>1. IInv /\ [Next]_vars => IInv'
  <2> SUFFICES ASSUME IInv, [Next]_vars PROVE IInv'
    OBVIOUS
  <2>1. CASE Next
    BY <2>1, StepTypeOK, StepMutexInv, StepDayInv, StepLineInv, StepKeptInv,
       StepOrderInv, StepLostInv DEF IInv
  <2>2. CASE UNCHANGED vars
    BY <2>2 DEF vars, qVars, logVars, outVars, IInv, TypeOK, Q!TypeOK, MutexInv, Holds,
                Q!Full, WriterInv, DayInv, LineInv, KeptInv, Written, InHand, OrderInv,
                QueueOrder, HandOrder, FileOrder, EntryOrder, PairOrder,
                Before, Accepted, LostInv, ClosedSince
  <2> QED  BY <2>1, <2>2
<1> QED  BY <1>1, InitIInv, PTL DEF Spec

(* No logger ever sleeps in Push with the log's mutex in its hands, though *)
(* Full and Push are two calls (Log.hpp:178-179).                          *)
THEOREM LoggersNeverSleep == Spec => []PushNeverSleeps
<1>1. IInv => PushNeverSleeps
  BY DEF IInv, MutexInv, PushNeverSleeps
<1> QED  BY <1>1, IInvHolds, PTL

(* Whatever the destructor and the writer do, a line whose Write returned  *)
(* before the destructor began is not lost but by a file that could not be *)
(* opened, which costs the lines accepted before and MAX_LINES after it;   *)
(* and a line that bypasses the queue goes to no file of another day.      *)
THEOREM NoReturnedLineIsLost == Spec => []ReturnedLinesKept
<1>1. IInv => ReturnedLinesKept
  BY DEF IInv, KeptInv, DayInv, LostInv, Holds, ReturnedLinesKept
<1> QED  BY <1>1, IInvHolds, PTL

LEMMA WhereWritten ==
    ASSUME IInv, NEW l \in Written
    PROVE  Position(l) \in DOMAIN file /\ file[Position(l)].line = l
<1>1. \E k \in DOMAIN file : file[k].line = l
  BY DEF Written
<1> QED  BY <1>1 DEF Position

(* The file shows the queued lines in the order of their calls, each once. *)
THEOREM LinesKeepTheirOrder == Spec => []QueuedInOrder
<1>1. IInv => QueuedInOrder
  <2> SUFFICES ASSUME IInv PROVE QueuedInOrder
    OBVIOUS
  <2>1. OrderInv /\ \A k \in DOMAIN file : k \in Nat
    BY Sequences DEF IInv
  <2>2. ASSUME NEW i \in DOMAIN accepted, NEW j \in DOMAIN accepted, i < j,
               {accepted[i], accepted[j]} \subseteq Written \ direct
        PROVE  Position(accepted[i]) < Position(accepted[j])
    <3> DEFINE l == accepted[i]
               m == accepted[j]
    <3>1. /\ Position(l) \in DOMAIN file /\ file[Position(l)].line = l
          /\ Position(m) \in DOMAIN file /\ file[Position(m)].line = m
      BY <2>2, WhereWritten
    <3>2. Before(l, m)
      BY <2>2 DEF Before
    <3>3. l # m /\ ~Before(m, l)
      BY <3>2, BeforeIsStrict
    <3>4. Position(l) # Position(m)
      BY <3>1, <3>3
    <3>5. ~(Position(m) < Position(l))
      BY <2>1, <2>2, <3>1, <3>3 DEF OrderInv, FileOrder, PairOrder
    <3> QED  BY <2>1, <3>1, <3>4, <3>5
  <2> QED  BY <2>1, <2>2 DEF OrderInv, FileOrder, PairOrder, QueuedInOrder
<1> QED  BY <1>1, IInvHolds, PTL
=============================================================================
