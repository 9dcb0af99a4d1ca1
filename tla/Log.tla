-------------------------------- MODULE Log --------------------------------
(***************************************************************************)
(* breUtils/Log.hpp in asynchronous mode: threads hand their lines, under  *)
(* the log's mutex, to a BlockQueue that one writer thread drains into the *)
(* open file.  A full queue makes Write go to the file itself.  The queue  *)
(* is the BlockQueue module; its steps are taken through Q!.               *)
(* Midnight and the line count of a file decide which file is open.  If    *)
(* the next one cannot be opened, Write throws and leaves none open; until *)
(* one is opened again, lines that come to be written vanish.              *)
(***************************************************************************)
EXTENDS Naturals, Sequences, FiniteSets, SequencesExt

CONSTANTS Loggers,      \* threads that call Write
          Writer,       \* the thread of asyncWrite
          Destroyer,    \* the thread that runs ~Log
          Lines,        \* lines to log; each is logged at most once
          QueueCapacity,
          MAX_LINES,    \* lines after which a new file is opened
          LastDay       \* bound: midnights in a behaviour

NoLine  == "NoLine"
NoOwner == "NoOwner"

VARIABLES queue, isClose, condProducer, condConsumer, pc, arg, ret,  \* of Q
          mtx,         \* the thread that holds Log::mtx over several steps
          stage,       \* where each logger is inside Write
          line, stamp, \* the line it logs and the day it read
          today, lineCount,
          fileName,    \* the file opened last: its day and its number
          streamOpen,  \* fileStream.is_open()
          failures,    \* history: how many lines were accepted when a file
                       \* could not be opened
          file,        \* what was written: line and file name, in order
          lost,        \* history: lines that came to a closed stream
          writer,      \* where asyncWrite is
          destroyer,   \* where ~Log is
          clock,       \* the day it is
          accepted,    \* history: lines in the order they got the mutex
          direct,      \* history: those that bypassed the queue
          kept         \* history: lines whose Write returned before ~Log

qVars   == <<queue, isClose, condProducer, condConsumer, pc, arg, ret>>
outVars == <<today, lineCount, fileName, streamOpen, failures>>
logVars == <<mtx, stage, line, stamp, outVars, file, lost, writer, destroyer, clock,
             accepted, direct, kept>>
vars    == <<qVars, logVars>>

Q == INSTANCE BlockQueue
         WITH Producers <- Loggers, Consumers <- {Writer}, TimedConsumers <- {},
              Controllers <- {Destroyer}, Items <- Lines,
              Capacity <- QueueCapacity

ASSUME SizeAssumption ==
    QueueCapacity \in Nat \ {0} /\ MAX_LINES \in Nat \ {0} /\ LastDay \in Nat
ASSUME RoleAssumption ==
    /\ IsFiniteSet(Loggers)
    /\ NoOwner \notin Loggers /\ Writer \notin Loggers
    /\ Destroyer \notin Loggers \union {Writer}
ASSUME LineAssumption ==
    Lines \intersect {NoLine, Q!NoItem, Q!Waiting, Q!Refused} = {}

FileName == [day : 0..LastDay, part : Nat]

TypeOK ==
    /\ Q!TypeOK
    /\ mtx \in Loggers \union {NoOwner}
    /\ stage \in [Loggers -> {"idle", "stamped", "locked", "push", "direct"}]
    /\ line \in [Loggers -> Lines \union {NoLine}]
    /\ stamp \in [Loggers -> 0..LastDay]
    /\ fileName \in FileName
    /\ streamOpen \in BOOLEAN
    /\ failures \subseteq Nat
    /\ lost \subseteq Lines
    /\ writer \in {"pop", "write", "done"}
    /\ destroyer \in {"alive", "drain", "flush", "close", "closing", "join",
                      "gone"}

Init ==
    /\ Q!Init
    /\ mtx = NoOwner
    /\ stage = [t \in Loggers |-> "idle"]
    /\ line = [t \in Loggers |-> NoLine]
    /\ stamp = [t \in Loggers |-> 0]
    /\ today = 0
    /\ lineCount = 0
    /\ fileName = [day |-> 0, part |-> 0]
    /\ streamOpen = TRUE
    /\ failures = {}
    /\ file = <<>>
    /\ lost = {}
    /\ writer = "pop"
    /\ destroyer = "alive"
    /\ clock = 0
    /\ accepted = <<>>
    /\ direct = {}
    /\ kept = {}

Alive == destroyer # "gone"

Midnight ==
    /\ clock < LastDay
    /\ clock' = clock + 1
    /\ UNCHANGED <<qVars, mtx, stage, line, stamp, outVars, file, lost, writer,
                   destroyer, accepted, direct, kept>>

-----------------------------------------------------------------------------
(* Write.  The time is read before the mutex is taken.                     *)

WriteStamp(t, l) ==
    /\ Alive
    /\ stage[t] = "idle"
    /\ l \notin ToSet(accepted) /\ \A u \in Loggers : line[u] # l
    /\ stage' = [stage EXCEPT ![t] = "stamped"]
    /\ line' = [line EXCEPT ![t] = l]
    /\ stamp' = [stamp EXCEPT ![t] = clock]
    /\ UNCHANGED <<qVars, mtx, outVars, file, lost, writer, destroyer, clock,
                   accepted, direct, kept>>

(* The lines counted so far, and whether a line of that day needs another  *)
(* file.                                                                   *)
Counted(day) == IF today # day THEN 0 ELSE lineCount
Rotates(day) == today # day \/ (lineCount > 0 /\ lineCount % MAX_LINES = 0)

Rotate(day) ==
    /\ today' = day
    /\ lineCount' = Counted(day) + 1
    /\ IF Rotates(day)
         THEN /\ fileName' = [day |-> day, part |-> Counted(day) \div MAX_LINES]
              /\ streamOpen' = TRUE
         ELSE UNCHANGED <<fileName, streamOpen>>
    /\ UNCHANGED failures

(* The file before is closed and the day has changed when open fails.      *)
RotateFails(day) ==
    /\ Rotates(day)
    /\ today' = day
    /\ lineCount' = Counted(day)
    /\ streamOpen' = FALSE
    /\ failures' = failures \union {Len(accepted)}
    /\ UNCHANGED fileName

(* Write throws: the line goes nowhere and its caller is told so.          *)
WriteThrow(t) ==
    /\ Alive
    /\ stage[t] = "stamped"
    /\ mtx = NoOwner
    /\ RotateFails(stamp[t])
    /\ stage' = [stage EXCEPT ![t] = "idle"]
    /\ line' = [line EXCEPT ![t] = NoLine]
    /\ stamp' = [stamp EXCEPT ![t] = 0]
    /\ UNCHANGED <<qVars, mtx, file, lost, writer, destroyer, clock,
                   accepted, direct, kept>>

WriteLock(t) ==
    /\ Alive
    /\ stage[t] = "stamped"
    /\ mtx = NoOwner
    /\ mtx' = t
    /\ Rotate(stamp[t])
    /\ accepted' = Append(accepted, line[t])
    /\ stage' = [stage EXCEPT ![t] = "locked"]
    /\ UNCHANGED <<qVars, line, stamp, file, lost, writer, destroyer, clock,
                   direct, kept>>

(* Mutant of WriteChoose: the capacity of the queue is not looked at.      *)
WriteChoosePush(t) ==
    /\ Alive
    /\ stage[t] = "locked"
    /\ stage' = [stage EXCEPT ![t] = "push"]
    /\ UNCHANGED <<qVars, mtx, line, stamp, outVars, file, lost, writer,
                   destroyer, clock, accepted, direct, kept>>

(* Mutant of WriteChoose: the log's mutex is released before the Push.     *)
WriteChooseUnlock(t) ==
    /\ Alive
    /\ stage[t] = "locked"
    /\ stage' = [stage EXCEPT ![t] = IF Q!Full THEN "direct" ELSE "push"]
    /\ mtx' = NoOwner
    /\ UNCHANGED <<qVars, line, stamp, outVars, file, lost, writer, destroyer,
                   clock, accepted, direct, kept>>

WriteChoose(t) ==
    /\ Alive
    /\ stage[t] = "locked"
    /\ stage' = [stage EXCEPT ![t] = IF Q!Full THEN "direct" ELSE "push"]
    /\ UNCHANGED <<qVars, mtx, line, stamp, outVars, file, lost, writer,
                   destroyer, clock, accepted, direct, kept>>

(* fileStream << l; on a closed stream nothing comes of it.                *)
Out(l) ==
    \/ /\ streamOpen
       /\ file' = Append(file, [line |-> l, name |-> fileName])
       /\ UNCHANGED lost
    \/ /\ ~streamOpen
       /\ lost' = lost \union {l}
       /\ UNCHANGED file

(* Write returns: the mutex is free.                                       *)
WriteReturn(t) ==
    /\ mtx' = NoOwner
    /\ stage' = [stage EXCEPT ![t] = "idle"]
    /\ line' = [line EXCEPT ![t] = NoLine]
    /\ stamp' = [stamp EXCEPT ![t] = 0]
    /\ kept' = IF destroyer = "alive" THEN kept \union {line[t]} ELSE kept

WritePush(t) ==
    /\ Alive
    /\ stage[t] = "push"
    /\ Q!Push(t, line[t]) \/ Q!PushResume(t)
    /\ IF pc'[t] = "idle" THEN WriteReturn(t)
                          ELSE UNCHANGED <<mtx, stage, line, stamp, kept>>
    /\ UNCHANGED <<outVars, file, lost, writer, destroyer, clock, accepted,
                   direct>>

WriteDirect(t) ==
    /\ Alive
    /\ stage[t] = "direct"
    /\ Out(line[t])
    /\ direct' = direct \union {line[t]}
    /\ WriteReturn(t)
    /\ UNCHANGED <<qVars, outVars, writer, destroyer, clock, accepted>>

-----------------------------------------------------------------------------
(* asyncWrite: pop without a timeout, then write under the log's mutex.    *)

WriterPop ==
    /\ writer = "pop"
    /\ Q!Pop(Writer) \/ Q!PopResume(Writer)
    /\ writer' = IF pc'[Writer] # "idle" THEN "pop"
                 ELSE IF ret'[Writer] = Q!Refused THEN "done" ELSE "write"
    /\ UNCHANGED <<mtx, stage, line, stamp, outVars, file, lost, destroyer,
                   clock, accepted, direct, kept>>

(* Mutant of WriterWrite: an "if" where the code loops.                    *)
WriterWriteOnce ==
    /\ writer = "write"
    /\ mtx = NoOwner
    /\ Out(ret[Writer])
    /\ writer' = "done"
    /\ UNCHANGED <<qVars, mtx, stage, line, stamp, outVars, destroyer, clock,
                   accepted, direct, kept>>

WriterWrite ==
    /\ writer = "write"
    /\ mtx = NoOwner
    /\ Out(ret[Writer])
    /\ writer' = "pop"
    /\ UNCHANGED <<qVars, mtx, stage, line, stamp, outVars, destroyer, clock,
                   accepted, direct, kept>>

-----------------------------------------------------------------------------
(* ~Log: wait until the queue is empty, close it, join the writer; an open *)
(* file is closed under the log's mutex.                                   *)

Goto(s) ==
    /\ destroyer' = s
    /\ UNCHANGED <<mtx, stage, line, stamp, outVars, file, lost, writer, clock,
                   accepted, direct, kept>>

Destroy == destroyer = "alive" /\ Goto("drain") /\ UNCHANGED qVars

(* Mutant of Drain: the queue is closed without waiting for the writer.    *)
DrainNot == destroyer = "drain" /\ Goto("close") /\ UNCHANGED qVars

Drain == /\ destroyer = "drain"
         /\ Goto(IF Q!Empty THEN "close" ELSE "flush")
         /\ UNCHANGED qVars

DrainFlush == destroyer = "flush" /\ Goto("drain") /\ Q!Flush(Destroyer)

CloseQueue == destroyer = "close" /\ Goto("closing") /\ Q!Close(Destroyer)

CloseNotify ==
    /\ destroyer = "closing"
    /\ \/ Q!CloseNotifyProducers(Destroyer) /\ Goto("closing")
       \/ Q!CloseNotifyConsumers(Destroyer) /\ Goto("join")

Join == /\ destroyer = "join"
        /\ writer = "done"
        /\ streamOpen => mtx = NoOwner
        /\ Goto("gone")
        /\ UNCHANGED qVars

SpuriousWakeup == \E t \in {Writer} \union Loggers : Q!SpuriousWakeup(t)
                                                     /\ UNCHANGED logVars

-----------------------------------------------------------------------------
LoggerStep(t) == \/ \E l \in Lines : WriteStamp(t, l)
                 \/ WriteLock(t) \/ WriteThrow(t) \/ WriteChoose(t)
                 \/ WritePush(t) \/ WriteDirect(t)

DestroyerStep == Drain \/ DrainFlush \/ CloseQueue \/ CloseNotify \/ Join

Next ==
    \/ Midnight
    \/ \E t \in Loggers : LoggerStep(t)
    \/ WriterPop \/ WriterWrite
    \/ Destroy \/ DestroyerStep
    \/ SpuriousWakeup

Spec == Init /\ [][Next]_vars

(* Threads inside a call run on.  Nobody is obliged to log or to destroy.  *)
Fairness ==
    /\ \A t \in Loggers : WF_vars(WriteLock(t) \/ WriteThrow(t) \/ WriteChoose(t)
                                  \/ WritePush(t) \/ WriteDirect(t))
    /\ WF_vars(WriterPop)
    /\ WF_vars(WriterWrite)
    /\ WF_vars(DestroyerStep)

-----------------------------------------------------------------------------
Written == {file[i].line : i \in DOMAIN file}
InHand  == IF writer = "write" THEN {ret[Writer]} ELSE {}
Position(l) == CHOOSE i \in DOMAIN file : file[i].line = l

(* A logger never sleeps in Push while it holds the log's mutex            *)
(* (Log.hpp:178-179): Full and Push are two calls, but every producer      *)
(* holds the mutex from the one to the other.                              *)
PushNeverSleeps == condProducer = {}

(* A line whose Write returned before the destructor began is written, or  *)
(* still queued, or in the writer's hand - never dropped by Close - unless *)
(* it came to a closed stream.  That can only happen after a file could    *)
(* not be opened, to lines accepted before and to no more than MAX_LINES   *)
(* after, since a file is tried again by then.  A line that bypasses the   *)
(* queue goes to the file of the day its own call read, whatever other     *)
(* calls read (Log.hpp:129-184, 241-244, 258-262).                         *)
ReturnedLinesKept ==
    /\ TypeOK
    /\ kept \subseteq Written \union ToSet(queue) \union InHand \union lost
    /\ \A k \in DOMAIN accepted :
          accepted[k] \in lost => \E f \in failures : k <= f + MAX_LINES
    /\ \A t \in Loggers : stage[t] = "direct" =>
          /\ today = stamp[t]
          /\ streamOpen => fileName.day = stamp[t]

(* No line is written twice, and lines that went through the queue are     *)
(* written in the order in which their calls got the mutex.                *)
QueuedInOrder ==
    /\ \A i, j \in DOMAIN file : file[i].line = file[j].line => i = j
    /\ \A i, j \in DOMAIN accepted :
          (i < j /\ {accepted[i], accepted[j]} \subseteq Written \ direct)
              => Position(accepted[i]) < Position(accepted[j])

(* A log that is not being destroyed catches up again and again: whatever  *)
(* it accepted is written then, or came to a closed stream (see            *)
(* ReturnedLinesKept for when it can; Log.hpp:178-184, 255-263).           *)
LinesGetWritten ==
    []<>(ToSet(accepted) \subseteq Written \union lost \/ destroyer # "alive")

(* The destructor returns if the writer is asleep in Pop, or on its way    *)
(* out of that sleep, when Close notifies it.  (A writer that is writing   *)
(* then comes back to a closed, empty queue and sleeps for ever.)          *)
JoinReturnsFromSleep ==
    (destroyer = "closing" /\ pc[Destroyer] = "notifyConsumers"
        /\ pc[Writer] = "pop" /\ isClose)
        ~> (destroyer = "gone")
=============================================================================
