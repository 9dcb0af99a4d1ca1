------------------------------ MODULE TcpServer ------------------------------
(***************************************************************************)
(* TCPServer, TCPSession, TCPHeader and NetLogic of breUtils/net, with a   *)
(* handler that answers every message with its own bytes, after a prefix,  *)
(* as MyNetLogic and TestNetLogic do:                                      *)
(*                                                                         *)
(*   - the thread in TCPServer::Run accepts and starts sessions;           *)
(*   - the threads of AsioIOContextPool read messages and push them into   *)
(*     the queue of NetLogic, every one for the sessions of its context;   *)
(*   - the thread of NetLogic handles them, and pushes replies into the    *)
(*     queue of the session;                                               *)
(*   - the write thread of every session sends them;                       *)
(*   - the owner stops the server and destroys it.                         *)
(*                                                                         *)
(* A request is a header, one unit on the wire that carries the number of  *)
(* units of data that follow.  A session has one TCPHeader for both        *)
(* directions, and its reader and its write thread use it without a lock.  *)
(*                                                                         *)
(* The queues are BlockQueues, taken for the bounded FIFO buffers that     *)
(* BlockQueueProofs shows them to be.  The insertion into _sessions is not *)
(* locked; it is taken to come before or after a concurrent lookup.        *)
(***************************************************************************)
EXTENDS Integers, Sequences, FiniteSets, SequencesExt

CONSTANTS SessionCount,   \* bound: TCPSessions the server creates
          ContextCount,   \* io_contexts of the pool
          Sizes,          \* bound: of each client, the sizes of its requests
          PrefixSize,     \* what the handler puts before its echo
          LogicCapacity,  \* size of NetLogic's queue
          SendCapacity    \* size of a session's queue

Sessions   == 1..SessionCount
Contexts   == 0..(ContextCount - 1)
Context(s) == (s - 1) % ContextCount

(* A request has data, so that it can be told from the others.             *)
ASSUME CountAssumption == SessionCount \in Nat /\ ContextCount \in Nat \ {0}
ASSUME SizesAssumption == Sizes \in [Sessions -> Seq(Nat \ {0})] /\ PrefixSize \in Nat
ASSUME QueueAssumption == LogicCapacity \in Nat /\ SendCapacity \in Nat

VARIABLES server,      \* "running", "stopped", "destroyed" or "deadlocked"
          accept,      \* "listen" or "insert": where handleAccept is
          pending,     \* the session that waits for the next client
          _sessions,   \* the sessions inserted
          peer,        \* the other end: "none", "up" or "gone"
          sent,        \* how many requests each client has sent
          wire,        \* units on their way to a session
          reading,     \* the read each session has asked for
          io,          \* the handler each pool thread is in, or none
          _header,     \* of each session
          logicQueue,  \* NetLogic::_queue
          logic,       \* where NetLogic's thread is, and its message
          _queue_send, \* of each session
          writer,      \* where each write thread is, and its data
          _is_closed,  \* of each session
          written,     \* history: what each client was sent
          raced        \* history: sessions whose _header both threads used at once

serverVars  == <<server, accept, pending, _sessions>>
clientVars  == <<peer, sent, written>>
readerVars  == <<wire, reading, io>>
headerVars  == <<_header, raced>>
logicVars   == <<logicQueue, logic>>
sessionVars == <<_queue_send, writer, _is_closed>>
vars == <<serverVars, clientVars, readerVars, headerVars, logicVars, sessionVars>>

(* Unit i of a client's request n; unit 0 is the header.                   *)
Unit(k, j)    == [n |-> k, i |-> j]
Units         == [n : Nat, i : Nat]
Request(s, k) == [j \in 1..Sizes[s][k] |-> Unit(k, j)]

(* A message as its callback gets it, and a reply as the client does.      *)
Messages == [session : Sessions, data : Seq(Units)]
Frames   == [size : Nat, data : Seq(Units)]

ReplySize(m) == PrefixSize + Len(m.data)

At(where, held)   == [at |-> where, msgs |-> held]
Read(what, count) == [what |-> what, count |-> count]
NoRead            == Read("nothing", 0)
HeaderRead        == Read("header", 1)

InHandler(c, s, what) ==
    \E h \in ToSet(io[c]) : h.session = s /\ h.in = what

TypeOK ==
    /\ server \in {"running", "stopped", "destroyed", "deadlocked"}
    /\ accept \in {"listen", "insert"}
    /\ pending \in Nat
    /\ _sessions \subseteq Sessions
    /\ peer \in [Sessions -> {"none", "up", "gone"}]
    /\ \A s \in Sessions : sent[s] \in 0..Len(Sizes[s])
    /\ wire \in [Sessions -> Seq(Units)]
    /\ \A s \in Sessions : /\ reading[s].what \in {"nothing", "header", "data", "freed"}
                           /\ reading[s].count \in Nat
    /\ \A c \in Contexts : /\ Len(io[c]) <= 1
                           /\ \A h \in ToSet(io[c]) : h.in \in {"parse", "push"}
    /\ _header \in [Sessions -> [FileSize : Nat, Data : Nat]]
    /\ logicQueue \in Seq(Messages) /\ Len(logicQueue) <= LogicCapacity
    /\ logic.at \in {"pop", "find", "send", "join"} /\ logic.msgs \in Seq(Messages)
    /\ \A s \in Sessions : /\ _queue_send[s] \in Seq(Messages)
                           /\ Len(_queue_send[s]) <= SendCapacity
                           /\ writer[s].at \in {"none", "pop", "header", "write", "end"}
                           /\ written[s] \in Seq(Frames)
    /\ _is_closed \in [Sessions -> BOOLEAN]
    /\ raced \subseteq Sessions

(* The constructor has called startAccept.                                 *)
Init ==
    /\ server = "running"
    /\ accept = "listen"
    /\ pending = 1
    /\ _sessions = {}
    /\ peer = [s \in Sessions |-> "none"]
    /\ sent = [s \in Sessions |-> 0]
    /\ wire = [s \in Sessions |-> <<>>]
    /\ reading = [s \in Sessions |-> NoRead]
    /\ io = [c \in Contexts |-> <<>>]
    /\ _header = [s \in Sessions |-> [FileSize |-> 0, Data |-> 0]]
    /\ logicQueue = <<>>
    /\ logic = At("pop", <<>>)
    /\ _queue_send = [s \in Sessions |-> <<>>]
    /\ writer = [s \in Sessions |-> At("none", <<>>)]
    /\ _is_closed = [s \in Sessions |-> FALSE]
    /\ written = [s \in Sessions |-> <<>>]
    /\ raced = {}

-----------------------------------------------------------------------------
(* The thread in Run.                                                      *)
Accepts == server = "running" /\ accept = "listen" /\ pending \in Sessions

(* handleAccept without an error starts the session ...                    *)
AcceptStart ==
    /\ Accepts
    /\ peer' = [peer EXCEPT ![pending] = "up"]
    /\ reading' = [reading EXCEPT ![pending] = HeaderRead]
    /\ writer' = [writer EXCEPT ![pending] = At("pop", <<>>)]
    /\ accept' = "insert"
    /\ UNCHANGED <<server, pending, _sessions, sent, written, wire, io,
                   headerVars, logicVars, _queue_send, _is_closed>>

(* ... and inserts it, then creates the next one in startAccept.           *)
AcceptInsert ==
    /\ accept = "insert"
    /\ _sessions' = _sessions \union {pending}
    /\ pending' = pending + 1
    /\ accept' = "listen"
    /\ UNCHANGED <<server, clientVars, readerVars, headerVars, logicVars, sessionVars>>

(* An accept that failed: its session is dropped, which ~TCPSession finds  *)
(* not inserted, and startAccept goes on.                                  *)
AcceptFails ==
    /\ Accepts
    /\ pending' = pending + 1
    /\ UNCHANGED <<server, accept, _sessions, clientVars, readerVars, headerVars,
                   logicVars, sessionVars>>

-----------------------------------------------------------------------------
(* The owner of the server.                                                *)

(* Stop, from another thread, stops the sessions and the context with      *)
(* _mutex held, which handleAccept does not take: what it inserts          *)
(* afterwards is not stopped.  No handler begins any more.                 *)
StopSessions == _is_closed' = [s \in Sessions |-> _is_closed[s] \/ s \in _sessions]

Stop ==
    /\ server = "running"
    /\ server' = "stopped"
    /\ StopSessions
    /\ UNCHANGED <<accept, pending, _sessions, clientVars, readerVars, headerVars,
                   logicVars, _queue_send, writer>>

(* The session NetLogic's thread has a reference to.                       *)
InUse == {m.session : m \in IF logic.at = "send" THEN ToSet(logic.msgs) ELSE {}}

(* Of all others the map has the last reference, and ~TCPSession calls     *)
(* ClearSession, which finds the session and locks _mutex.                 *)
ClearLocks == ~(_sessions \subseteq InUse)

(* ~TCPServer, once Run has returned, stops again, and clears _sessions    *)
(* with _mutex held: a thread that locks it then waits for itself.         *)
Destroy ==
    /\ server = "stopped"
    /\ accept = "listen"
    /\ StopSessions
    /\ \/ /\ ~ClearLocks
          /\ server' = "destroyed"
          /\ _sessions' = {}
       \/ /\ ClearLocks
          /\ server' = "deadlocked"
          /\ UNCHANGED _sessions
    /\ UNCHANGED <<accept, pending, clientVars, readerVars, headerVars, logicVars,
                   _queue_send, writer>>

-----------------------------------------------------------------------------
(* The clients.                                                            *)
ClientSends(s) ==
    /\ peer[s] = "up"
    /\ sent[s] < Len(Sizes[s])
    /\ sent' = [sent EXCEPT ![s] = @ + 1]
    /\ LET n == sent[s] + 1
       IN  wire' = [wire EXCEPT ![s] = @ \o <<Unit(n, 0)>> \o Request(s, n)]
    /\ UNCHANGED <<serverVars, peer, written, reading, io, headerVars, logicVars,
                   sessionVars>>

ClientGoes(s) ==
    /\ peer[s] = "up"
    /\ peer' = [peer EXCEPT ![s] = "gone"]
    /\ UNCHANGED <<serverVars, sent, written, readerVars, headerVars,
                   logicVars, sessionVars>>

-----------------------------------------------------------------------------
(* The pool's threads.  A read completes when all it asked for is there.   *)
Completes(s, what) ==
    /\ reading[s].what = what
    /\ io[Context(s)] = <<>>
    /\ Len(wire[s]) >= reading[s].count

Begin(s, what, units) ==
    io' = [io EXCEPT ![Context(s)] = <<[session |-> s, in |-> what, data |-> units]>>]

(* asyncReadHeader's handler: Parse takes the size from the header, ...    *)
ReadHeader(s) ==
    /\ Completes(s, "header")
    /\ LET unit == Head(wire[s])
       IN  /\ unit.i = 0
           /\ Begin(s, "parse", <<unit>>)
           /\ _header' = [_header EXCEPT ![s].FileSize = Sizes[s][unit.n]]
    /\ wire' = [wire EXCEPT ![s] = Tail(@)]
    /\ reading' = [reading EXCEPT ![s] = NoRead]
    /\ raced' = IF writer[s].at = "write" THEN raced \union {s} ELSE raced
    /\ UNCHANGED <<serverVars, clientVars, logicVars, sessionVars>>

(* ... keeps the header, and the handler asks for as much data as _header  *)
(* says by now.                                                            *)
AskForData(s) ==
    /\ InHandler(Context(s), s, "parse")
    /\ LET unit == Head(io[Context(s)][1].data)
       IN  _header' = [_header EXCEPT ![s].Data = Sizes[s][unit.n]]
    /\ reading' = [reading EXCEPT ![s] = IF @.what = "freed" THEN @
                                         ELSE Read("data", _header[s].FileSize)]
    /\ io' = [io EXCEPT ![Context(s)] = <<>>]
    /\ UNCHANGED <<serverVars, clientVars, wire, raced, logicVars, sessionVars>>

(* What does not begin with BREZ: the handler returns, and neither reads   *)
(* on nor stops the session.                                               *)
ReadNoHeader(s) ==
    /\ Completes(s, "header")
    /\ Head(wire[s]).i # 0
    /\ wire' = [wire EXCEPT ![s] = Tail(@)]
    /\ reading' = [reading EXCEPT ![s] = NoRead]
    /\ UNCHANGED <<serverVars, clientVars, io, headerVars, logicVars, sessionVars>>

ReadData(s) ==
    /\ Completes(s, "data")
    /\ Begin(s, "push", SubSeq(wire[s], 1, reading[s].count))
    /\ wire' = [wire EXCEPT ![s] = SubSeq(@, reading[s].count + 1, Len(@))]
    /\ reading' = [reading EXCEPT ![s] = NoRead]
    /\ UNCHANGED <<serverVars, clientVars, headerVars, logicVars, sessionVars>>

(* Mutant of PushToLogic: the next read is forgotten.                      *)
PushToLogicOnce(s) ==
    /\ InHandler(Context(s), s, "push")
    /\ Len(logicQueue) < LogicCapacity
    /\ logicQueue' = Append(logicQueue, [session |-> s, data |-> io[Context(s)][1].data])
    /\ io' = [io EXCEPT ![Context(s)] = <<>>]
    /\ UNCHANGED <<serverVars, clientVars, wire, reading, headerVars, logic, sessionVars>>

(* The callback pushes into NetLogic's queue, and waits while it is full;  *)
(* then the session reads on, even if it was stopped.                      *)
PushToLogic(s) ==
    /\ InHandler(Context(s), s, "push")
    /\ Len(logicQueue) < LogicCapacity
    /\ logicQueue' = Append(logicQueue, [session |-> s, data |-> io[Context(s)][1].data])
    /\ reading' = [reading EXCEPT ![s] = IF @.what = "freed" THEN @ ELSE HeaderRead]
    /\ io' = [io EXCEPT ![Context(s)] = <<>>]
    /\ UNCHANGED <<serverVars, clientVars, wire, headerVars, logic, sessionVars>>

(* A read that fails stops the session.  It stays in _sessions.            *)
ReadFails(s) ==
    /\ reading[s].what \in {"header", "data"}
    /\ io[Context(s)] = <<>>
    /\ peer[s] = "gone"
    /\ reading' = [reading EXCEPT ![s] = NoRead]
    /\ _is_closed' = [_is_closed EXCEPT ![s] = TRUE]
    /\ UNCHANGED <<serverVars, clientVars, wire, io, headerVars, logicVars, _queue_send,
                   writer>>

-----------------------------------------------------------------------------
(* NetLogic's thread.                                                      *)
LogicPop ==
    /\ logic.at = "pop"
    /\ logicQueue # <<>>
    /\ logic' = At("find", <<Head(logicQueue)>>)
    /\ logicQueue' = Tail(logicQueue)
    /\ UNCHANGED <<serverVars, clientVars, readerVars, headerVars, sessionVars>>

(* GetSession, which waits for ever if the destructor has _mutex; a map    *)
(* that was destroyed is still found empty.  Without a session there is no *)
(* answer.                                                                 *)
LogicFind ==
    /\ logic.at = "find"
    /\ server # "deadlocked"
    /\ LET m == Head(logic.msgs)
       IN  \/ /\ m.session \in _sessions
              /\ logic' = At("send", <<m>>)
           \/ /\ m.session \notin _sessions
              /\ logic' = At("pop", <<>>)
    /\ UNCHANGED <<serverVars, clientVars, readerVars, headerVars, logicQueue, sessionVars>>

AfterSend(m) == IF m.session \in _sessions THEN At("pop", <<>>) ELSE At("join", <<m>>)

(* Mutant of LogicSend: with the queue full the reply is written at once.  *)
LogicSendDirect ==
    /\ logic.at = "send"
    /\ LET m == Head(logic.msgs)  s == m.session
       IN  /\ \/ /\ Len(_queue_send[s]) < SendCapacity
                 /\ _queue_send' = [_queue_send EXCEPT ![s] = Append(@, m)]
                 /\ UNCHANGED written
              \/ /\ Len(_queue_send[s]) = SendCapacity
                 /\ written' = [written EXCEPT
                        ![s] = Append(@, [size |-> ReplySize(m), data |-> m.data])]
                 /\ UNCHANGED _queue_send
           /\ logic' = AfterSend(m)
    /\ UNCHANGED <<serverVars, peer, sent, readerVars, headerVars, logicQueue,
                   writer, _is_closed>>

(* Send waits while the session's queue is full.  The thread then gives    *)
(* its reference back, and destroys a session that is in no map any more.  *)
LogicSend ==
    /\ logic.at = "send"
    /\ LET m == Head(logic.msgs)
       IN  /\ Len(_queue_send[m.session]) < SendCapacity
           /\ _queue_send' = [_queue_send EXCEPT ![m.session] = Append(@, m)]
           /\ logic' = AfterSend(m)
    /\ UNCHANGED <<serverVars, clientVars, readerVars, headerVars, logicQueue,
                   writer, _is_closed>>

(* ~TCPSession joins the write thread and closes the socket.               *)
LogicJoin ==
    /\ logic.at = "join"
    /\ LET s == Head(logic.msgs).session
       IN  /\ writer[s].at = "end"
           /\ reading' = [reading EXCEPT ![s] = Read("freed", 0)]
    /\ logic' = At("pop", <<>>)
    /\ UNCHANGED <<serverVars, clientVars, wire, io, headerVars, logicQueue, sessionVars>>

-----------------------------------------------------------------------------
(* The write thread of a session tests _is_closed between two Pops, and    *)
(* not while it waits in one.                                              *)
WriterPop(s) ==
    /\ writer[s].at = "pop"
    /\ _queue_send[s] # <<>>
    /\ writer' = [writer EXCEPT ![s] = At("header", <<Head(_queue_send[s])>>)]
    /\ _queue_send' = [_queue_send EXCEPT ![s] = Tail(@)]
    /\ UNCHANGED <<serverVars, clientVars, readerVars, headerVars, logicVars, _is_closed>>

(* Pop timed out.                                                          *)
WriterEnds(s) ==
    /\ writer[s].at = "pop"
    /\ _is_closed[s]
    /\ writer' = [writer EXCEPT ![s] = At("end", <<>>)]
    /\ UNCHANGED <<serverVars, clientVars, readerVars, headerVars, logicVars, _queue_send,
                   _is_closed>>

(* GetHeaderData writes the size into _header ...                          *)
WriterHeader(s) ==
    /\ writer[s].at = "header"
    /\ LET size == ReplySize(Head(writer[s].msgs))
       IN  _header' = [_header EXCEPT ![s] = [FileSize |-> size, Data |-> size]]
    /\ raced' = IF InHandler(Context(s), s, "parse") THEN raced \union {s} ELSE raced
    /\ writer' = [writer EXCEPT ![s].at = "write"]
    /\ UNCHANGED <<serverVars, clientVars, readerVars, logicVars, _queue_send, _is_closed>>

AfterWrite(s) == At(IF _is_closed[s] THEN "end" ELSE "pop", <<>>)

(* ... and returns what _header holds by now.  A failed write throws, is   *)
(* caught, and the data is gone.                                           *)
WriterWrite(s) ==
    /\ writer[s].at = "write"
    /\ LET frame == [size |-> _header[s].Data, data |-> Head(writer[s].msgs).data]
       IN  \/ peer[s] = "up" /\ written' = [written EXCEPT ![s] = Append(@, frame)]
           \/ peer[s] = "gone" /\ UNCHANGED written
    /\ writer' = [writer EXCEPT ![s] = AfterWrite(s)]
    /\ UNCHANGED <<serverVars, peer, sent, readerVars, headerVars, logicVars,
                   _queue_send, _is_closed>>

-----------------------------------------------------------------------------
Run       == AcceptStart \/ AcceptInsert \/ AcceptFails
Logic     == LogicPop \/ LogicFind \/ LogicSend \/ LogicJoin
Client(s) == ClientSends(s) \/ ClientGoes(s)
Reads(s)  == ReadHeader(s) \/ ReadNoHeader(s) \/ ReadData(s)
Writer(s) == WriterPop(s) \/ WriterEnds(s) \/ WriterHeader(s) \/ WriterWrite(s)

Next ==
    \/ Run \/ Logic \/ Stop \/ Destroy
    \/ \E s \in Sessions :
          \/ Client(s) \/ Writer(s)
          \/ Reads(s) \/ AskForData(s) \/ PushToLogic(s) \/ ReadFails(s)

Spec == Init /\ [][Next]_vars

(* The threads run, and no sender is overtaken for ever: neither a thread  *)
(* that pushes into a queue by others, nor a session by those that share   *)
(* its io_context.  Nobody has to stop or to destroy the server.           *)
Fairness ==
    /\ WF_vars(AcceptInsert) /\ WF_vars(Logic)
    /\ \A s \in Sessions :
          /\ SF_vars(Reads(s)) /\ WF_vars(AskForData(s)) /\ SF_vars(PushToLogic(s))
          /\ WF_vars(Writer(s))

FairSpec == Spec /\ Fairness

-----------------------------------------------------------------------------
For(s, msgs) == [k \in DOMAIN msgs |-> [session |-> s, data |-> msgs[k].data]]
InLogic      == IF logic.at = "join" THEN <<>> ELSE logic.msgs
Pushing(s)   == IF InHandler(Context(s), s, "push") THEN For(s, io[Context(s)]) ELSE <<>>

(* What is on the way back to the client of s, oldest first, with what is  *)
(* for others in NetLogic; a message is known by its first unit.           *)
Pipeline(s) == For(s, written[s] \o writer[s].msgs \o _queue_send[s])
                  \o InLogic \o logicQueue \o Pushing(s)
Number(m)   == m.data[1].n

(* The reader of s is between its two uses of _header, and the write       *)
(* thread between its own.                                                 *)
Racing(s) == InHandler(Context(s), s, "parse") /\ writer[s].at = "write"

(* Every client is answered in the order of its requests, once, whole, in  *)
(* frames of the right size and by nothing that another client sent.  Only *)
(* its first requests can go unanswered: handleAccept starts a session     *)
(* before it inserts it, but once a handler found it, all later requests   *)
(* are answered until the client goes or the server is destroyed.          *)
(* What can spoil this is the one _header that the reader and the write    *)
(* thread of a session share, and only for a client that sends a request   *)
(* before it has all its answers (TCP.hpp:63-66, 103-110, TCPSession.hpp:  *)
(* 96-145).                                                                *)
AnsweredInOrder ==
    /\ TypeOK
    /\ \A s \in Sessions : Racing(s) => sent[s] >= Len(written[s]) + 2
    /\ \A s \in Sessions \ raced :
          LET p    == Pipeline(s)
              own  == {k \in DOMAIN p : p[k].session = s}
              N(k) == Number(p[k])
          IN  /\ \A k \in own : p[k].data = Request(s, N(k))
              /\ \A j, k \in own : j < k => N(j) < N(k)
              /\ peer[s] = "up" /\ server # "destroyed" =>
                    \A j, k \in own : N(j)..N(k) \subseteq {N(i) : i \in own}
              /\ \A frame \in ToSet(written[s]) : frame.size = ReplySize(frame)

(* Every message a client sends is handled, unless the session's header    *)
(* was raced for or the session was freed, or NetLogic's thread is stuck   *)
(* for ever.  There are two ways to get stuck: the write thread of a       *)
(* stopped session has ended, nobody empties the session's queue, and a    *)
(* handler that goes on answering it waits in Send (TCPSession.hpp:81-83,  *)
(* 133-145, BlockQueue.hpp:63-70); or the server's destructor waits for    *)
(* the mutex it holds (TCPServer.hpp:58-60).                               *)
Stuck ==
    \/ server = "deadlocked" /\ logic.at = "find"
    \/ /\ logic.at = "send"
       /\ LET s == Head(logic.msgs).session
          IN  writer[s].at = "end" /\ Len(_queue_send[s]) = SendCapacity

NothingWaits(s) ==
    /\ wire[s] = <<>>
    /\ io[Context(s)] # <<>> => io[Context(s)][1].session # s
    /\ \A m \in ToSet(logicQueue) : m.session # s

MessagesAreHandled ==
    \A s \in Sessions :
        \/ []<>(NothingWaits(s) \/ peer[s] = "gone")
        \/ <>[](s \in raced \/ reading[s].what = "freed" \/ Stuck)

(* What the last line of ~TCPServer, "Server stop", and a test that ends   *)
(* by destroying its server expect: the destructor comes to its end.       *)
DestructorReturns == server # "deadlocked"
=============================================================================
