----------------------------- MODULE TcpManager -----------------------------
(***************************************************************************)
(* TCPSender and TCPReceiver of breUtils/net/TCPManager.hpp.  A sender has *)
(* a queue and a thread that writes a header and the data of each element; *)
(* a receiver has a thread that reads them, and accepts the next sender    *)
(* when the one before has closed; Get takes data out of its queue.        *)
(*                                                                         *)
(* What the receiver's thread does without the mutex - test _is_closed,    *)
(* push - is taken to come before or after what others do with it.  The    *)
(* connect() of line 275, which is declared nowhere, is taken for the      *)
(* startConnect() of line 303.  SendDirect is called by one thread, which  *)
(* also calls Close.                                                       *)
(*                                                                         *)
(* A header is one unit on the wire, and so is data that is not empty.     *)
(***************************************************************************)
EXTENDS Naturals, Sequences, FiniteSets, SequencesExt

CONSTANTS Senders, Receivers,
          Getters,      \* threads that call Get
          To,           \* [Senders -> Receivers]: the port of each sender
          From,         \* [Getters -> Receivers]
          NoSender,
          Retries,      \* attempts of Connect: 3
          Sizes,        \* sizes each sender's messages may have; 0 is the empty one
          MaxMessages,  \* bound: messages each sender is given, a function
          Direct,       \* senders that are also given messages by SendDirect
          Failing       \* senders whose program or connection may fail

VARIABLES
    sender,      \* where each sender's constructor or Close is
    attempts,    \* of its Connect, that failed
    snd_closed,  \* its _is_closed
    snd_queue,   \* its _queue
    thread,      \* where its _send_thread is, and the data it holds
    direct,      \* where its SendDirect is, and the data it holds
    sent,        \* history: what was given to Send, or written by SendDirect
    mixed,       \* history: senders whose thread wrote during a SendDirect
    conn,        \* "none", "open", "closed" by the sender, or "reset"
    wire,        \* what was written and not yet read
    receiver,    \* where each receiver's constructor or Close is
    listening,   \* receivers with an open acceptor
    backlog,     \* connections an acceptor has not accepted yet
    _socket,     \* the sender a receiver is connected to
    recv,        \* where its _recv_thread is, and the data it holds
    _header,     \* the size in its _header
    rcv_closed,  \* its _is_closed
    rcv_queue,   \* its _queue
    getter,      \* where each Get is
    passed,      \* history: Gets a notification passed by before they slept
    taken        \* history: what each receiver's Gets returned

directVars == <<direct, mixed>>
sendVars == <<sender, attempts, snd_closed, snd_queue, thread, sent, directVars>>
connVars == <<conn, wire, listening, backlog, _socket>>
recvVars == <<receiver, recv, _header, rcv_closed, rcv_queue>>
getVars  == <<getter, passed, taken>>
tcpVars  == <<sendVars, connVars, recvVars, getVars>>

At(where, held) == [at |-> where, msgs |-> held]

TcpInit ==
    /\ sender = [s \in Senders |-> "none"]
    /\ attempts = [s \in Senders |-> 0]
    /\ snd_closed = [s \in Senders |-> TRUE]
    /\ snd_queue = [s \in Senders |-> <<>>]
    /\ thread = [s \in Senders |-> At("none", <<>>)]
    /\ direct = [s \in Senders |-> At("none", <<>>)]
    /\ sent = [s \in Senders |-> <<>>]
    /\ mixed = {}
    /\ conn = [s \in Senders |-> "none"]
    /\ wire = [s \in Senders |-> <<>>]
    /\ receiver = [r \in Receivers |-> "none"]
    /\ listening = {}
    /\ backlog = [r \in Receivers |-> <<>>]
    /\ _socket = [r \in Receivers |-> NoSender]
    /\ recv = [r \in Receivers |-> At("none", <<>>)]
    /\ _header = [r \in Receivers |-> 0]
    /\ rcv_closed = [r \in Receivers |-> FALSE]
    /\ rcv_queue = [r \in Receivers |-> <<>>]
    /\ getter = [g \in Getters |-> "idle"]
    /\ passed = {}
    /\ taken = [r \in Receivers |-> <<>>]

-----------------------------------------------------------------------------
(* The sender's constructor.                                               *)
MakeSender(s) ==
    /\ sender[s] = "none"
    /\ sender' = [sender EXCEPT ![s] = "connecting"]
    /\ UNCHANGED <<directVars, attempts, snd_closed, snd_queue, thread, sent,
                   connVars, recvVars, getVars>>

(* Connected: the thread starts, while _is_closed is still true.           *)
Connect(s) ==
    /\ sender[s] = "connecting"
    /\ To[s] \in listening
    /\ conn' = [conn EXCEPT ![s] = "open"]
    /\ backlog' = [backlog EXCEPT ![To[s]] = Append(@, s)]
    /\ thread' = [thread EXCEPT ![s] = At("take", <<>>)]
    /\ sender' = [sender EXCEPT ![s] = "started"]
    /\ UNCHANGED <<directVars, attempts, snd_closed, snd_queue, sent, wire,
                   listening, _socket, recvVars, getVars>>

(* After the last attempt there is a sender without a thread.              *)
ConnectRefused(s) ==
    /\ sender[s] = "connecting"
    /\ To[s] \notin listening
    /\ attempts' = [attempts EXCEPT ![s] = @ + 1]
    /\ sender' = [sender EXCEPT ![s] =
                     IF attempts[s] + 1 = Retries THEN "started" ELSE "connecting"]
    /\ UNCHANGED <<directVars, snd_closed, snd_queue, thread, sent, connVars, recvVars,
                   getVars>>

SenderOpens(s) ==
    /\ sender[s] = "started"
    /\ snd_closed' = [snd_closed EXCEPT ![s] = FALSE]
    /\ sender' = [sender EXCEPT ![s] = "open"]
    /\ UNCHANGED <<directVars, attempts, snd_queue, thread, sent, connVars,
                   recvVars, getVars>>

Message(s, way, size) ==
    [from |-> s, way |-> way, size |-> size, n |-> Len(sent[s]) + 1]

Send(s, size) ==
    /\ sender[s] = "open"
    /\ Len(sent[s]) < MaxMessages[s]
    /\ LET m == Message(s, "queue", size)
       IN  /\ sent' = [sent EXCEPT ![s] = Append(@, m)]
           /\ snd_queue' = [snd_queue EXCEPT ![s] = Append(@, m)]
    /\ UNCHANGED <<directVars, sender, attempts, snd_closed, thread, connVars,
                   recvVars, getVars>>

CloseSender(s) ==
    /\ sender[s] = "open" /\ direct[s].at = "none"
    /\ snd_closed' = [snd_closed EXCEPT ![s] = TRUE]
    /\ sender' = [sender EXCEPT ![s] = "joining"]
    /\ UNCHANGED <<directVars, attempts, snd_queue, thread, sent, connVars,
                   recvVars, getVars>>

JoinSender(s) ==
    /\ sender[s] = "joining"
    /\ thread[s].at \in {"none", "end", "stillborn"}
    /\ sender' = [sender EXCEPT ![s] = "closed"]
    /\ conn' = [conn EXCEPT ![s] = IF @ = "open" THEN "closed" ELSE @]
    /\ UNCHANGED <<directVars, attempts, snd_closed, snd_queue, thread, sent, wire,
                   listening, backlog, _socket, recvVars, getVars>>

-----------------------------------------------------------------------------
(* sendThread.  Whoever makes its predicate true does so under the mutex   *)
(* and notifies, so it never misses that.                                  *)
SendTake(s) ==
    /\ thread[s].at = "take"
    /\ snd_queue[s] # <<>>
    /\ thread' = [thread EXCEPT ![s] = At("header", <<Head(snd_queue[s])>>)]
    /\ snd_queue' = [snd_queue EXCEPT ![s] = Tail(@)]
    /\ mixed' = IF direct[s].at # "none" THEN mixed \union {s} ELSE mixed
    /\ UNCHANGED <<direct, sender, attempts, snd_closed, sent, connVars, recvVars,
                   getVars>>

(* Mutant of SendEnd: Close does not wait for the queue.                   *)
SendEndAtOnce(s) ==
    /\ thread[s].at = "take"
    /\ snd_closed[s]
    /\ thread' = [thread EXCEPT ![s] = At("end", <<>>)]
    /\ UNCHANGED <<directVars, sender, attempts, snd_closed, snd_queue, sent,
                   connVars, recvVars, getVars>>

(* The thread can find _is_closed true because the constructor has not set *)
(* it to false yet: then the sender is stillborn.                          *)
SendEnd(s) ==
    /\ thread[s].at = "take"
    /\ snd_closed[s] /\ snd_queue[s] = <<>>
    /\ thread' = [thread EXCEPT ![s] =
                     At(IF sender[s] = "started" THEN "stillborn" ELSE "end", <<>>)]
    /\ UNCHANGED <<directVars, sender, attempts, snd_closed, snd_queue, sent,
                   connVars, recvVars, getVars>>

(* A header says how much data follows it; empty data writes nothing.      *)
Units(part, m) ==
    IF part = "data" /\ m.size = 0 THEN <<>> ELSE <<[part |-> part, msg |-> m]>>

SendWrite(s) ==
    /\ thread[s].at \in {"header", "data"}
    /\ conn[s] = "open"
    /\ wire' = [wire EXCEPT ![s] = @ \o Units(thread[s].at, Head(thread[s].msgs))]
    /\ thread' = [thread EXCEPT ![s] = IF @.at = "header" THEN [@ EXCEPT !.at = "data"]
                                                          ELSE At("take", <<>>)]
    /\ UNCHANGED <<directVars, sender, attempts, snd_closed, snd_queue, sent, conn,
                   listening, backlog, _socket, recvVars, getVars>>

(* A write that throws ends the thread; the rest of the queue stays.       *)
SendFails(s) ==
    /\ thread[s].at \in {"header", "data"}
    /\ conn[s] = "reset"
    /\ thread' = [thread EXCEPT ![s] = At("end", <<>>)]
    /\ UNCHANGED <<directVars, sender, attempts, snd_closed, snd_queue, sent,
                   connVars, recvVars, getVars>>

(* SendDirect writes by itself, next to the thread.                        *)
SendDirect(s, size) ==
    /\ s \in Direct
    /\ sender[s] = "open" /\ direct[s].at = "none"
    /\ Len(sent[s]) < MaxMessages[s]
    /\ direct' = [direct EXCEPT ![s] = At("header", <<Message(s, "direct", size)>>)]
    /\ mixed' = IF thread[s].at \in {"header", "data"} THEN mixed \union {s} ELSE mixed
    /\ UNCHANGED <<sender, attempts, snd_closed, snd_queue, thread, sent, connVars,
                   recvVars, getVars>>

DirectWrite(s) ==
    /\ direct[s].at # "none"
    /\ conn[s] = "open"
    /\ wire' = [wire EXCEPT ![s] = @ \o Units(direct[s].at, Head(direct[s].msgs))]
    /\ \/ /\ direct[s].at = "header"
          /\ direct' = [direct EXCEPT ![s].at = "data"]
          /\ sent' = [sent EXCEPT ![s] = @ \o direct[s].msgs]
       \/ /\ direct[s].at = "data"
          /\ direct' = [direct EXCEPT ![s] = At("none", <<>>)]
          /\ UNCHANGED sent
    /\ UNCHANGED <<sender, attempts, snd_closed, snd_queue, thread, mixed, conn,
                   listening, backlog, _socket, recvVars, getVars>>

(* A write that throws, to the caller.                                     *)
DirectFails(s) ==
    /\ direct[s].at # "none"
    /\ conn[s] # "open"
    /\ direct' = [direct EXCEPT ![s] = At("none", <<>>)]
    /\ UNCHANGED <<sender, attempts, snd_closed, snd_queue, thread, sent, mixed,
                   connVars, recvVars, getVars>>

(* The sender's program ends, wherever it is; or the connection breaks.    *)
Crash(s) ==
    /\ s \in Failing
    /\ sender[s] \notin {"none", "closed", "crashed"}
    /\ sender' = [sender EXCEPT ![s] = "crashed"]
    /\ thread' = [thread EXCEPT ![s] = At("end", <<>>)]
    /\ direct' = [direct EXCEPT ![s] = At("none", <<>>)]
    /\ conn' = [conn EXCEPT ![s] = IF @ = "open" THEN "closed" ELSE @]
    /\ UNCHANGED <<mixed, attempts, snd_closed, snd_queue, sent, wire, listening,
                   backlog, _socket, recvVars, getVars>>

Break(s) ==
    /\ s \in Failing
    /\ conn[s] = "open"
    /\ conn' = [conn EXCEPT ![s] = "reset"]
    /\ UNCHANGED <<sendVars, wire, listening, backlog, _socket, recvVars, getVars>>

-----------------------------------------------------------------------------
(* The receiver's constructor, whose startConnect is also called by the    *)
(* thread when the connection has come to its end.                         *)
MakeReceiver(r) ==
    /\ receiver[r] = "none"
    /\ receiver' = [receiver EXCEPT ![r] = "accepting"]
    /\ UNCHANGED <<sendVars, connVars, recv, rcv_closed, rcv_queue, _header,
                   getVars>>

Accepting(r) == receiver[r] = "accepting" \/ recv[r].at = "accept"

Listen(r) ==
    /\ Accepting(r)
    /\ r \notin listening
    /\ listening' = listening \union {r}
    /\ UNCHANGED <<sendVars, conn, wire, backlog, _socket, recvVars, getVars>>

(* The acceptor accepts one connection and is destroyed; the connections   *)
(* it has not accepted are reset.                                          *)
Accept(r) ==
    /\ r \in listening
    /\ backlog[r] # <<>>
    /\ _socket' = [_socket EXCEPT ![r] = Head(backlog[r])]
    /\ conn' = [s \in Senders |->
                    IF s \in Range(Tail(backlog[r])) THEN "reset" ELSE conn[s]]
    /\ listening' = listening \ {r}
    /\ backlog' = [backlog EXCEPT ![r] = <<>>]
    /\ receiver' = [receiver EXCEPT ![r] = IF @ = "accepting" THEN "open" ELSE @]
    /\ recv' = [recv EXCEPT ![r] = At("test", <<>>)]
    /\ UNCHANGED <<sendVars, wire, rcv_closed, rcv_queue, _header, getVars>>

-----------------------------------------------------------------------------
(* recvThread.                                                             *)
RecvTest(r) ==
    /\ recv[r].at = "test"
    /\ recv' = [recv EXCEPT ![r] = At(IF rcv_closed[r] THEN "end" ELSE "header", <<>>)]
    /\ UNCHANGED <<sendVars, connVars, receiver, rcv_closed, rcv_queue, _header,
                   getVars>>

Readable(r) == /\ recv[r].at \in {"header", "data"}
               /\ conn[_socket[r]] # "reset"

(* The header.  What is none is not parsed, so that _header keeps the      *)
(* header before, which is the one whose first bytes are looked at: the    *)
(* size before is taken again.  A message of no size is skipped.           *)
RecvHeader(r) ==
    /\ Readable(r) /\ recv[r].at = "header"
    /\ wire[_socket[r]] # <<>>
    /\ LET unit == Head(wire[_socket[r]])
           size == IF unit.part = "header" THEN unit.msg.size ELSE _header[r]
       IN  /\ recv' = [recv EXCEPT ![r] = IF size = 0 THEN At("test", <<>>)
                                           ELSE At("data", <<unit.msg>>)]
           /\ _header' = [_header EXCEPT ![r] = size]
    /\ wire' = [wire EXCEPT ![_socket[r]] = Tail(@)]
    /\ UNCHANGED <<sendVars, conn, listening, backlog, _socket, receiver,
                   rcv_closed, rcv_queue, getVars>>

(* The data, which may be a header's bytes.                                *)
RecvData(r) ==
    /\ Readable(r) /\ recv[r].at = "data"
    /\ wire[_socket[r]] # <<>>
    /\ LET unit == Head(wire[_socket[r]])
           got  == IF unit.part = "data" THEN unit.msg
                   ELSE [unit.msg EXCEPT !.way = "none"]
       IN  recv' = [recv EXCEPT ![r] = At("push", <<got>>)]
    /\ wire' = [wire EXCEPT ![_socket[r]] = Tail(@)]
    /\ UNCHANGED <<sendVars, conn, listening, backlog, _socket, receiver, _header,
                   rcv_closed, rcv_queue, getVars>>

(* The end of the stream, before or inside a message.                      *)
RecvEnd(r) ==
    /\ Readable(r)
    /\ conn[_socket[r]] = "closed" /\ wire[_socket[r]] = <<>>
    /\ recv' = [recv EXCEPT ![r] = At("accept", <<>>)]
    /\ UNCHANGED <<sendVars, connVars, receiver, rcv_closed, rcv_queue, _header,
                   getVars>>

(* Any other error throws; the loop goes on with the same socket.          *)
RecvFails(r) ==
    /\ recv[r].at \in {"header", "data"}
    /\ conn[_socket[r]] = "reset"
    /\ recv' = [recv EXCEPT ![r] = At("test", <<>>)]
    /\ UNCHANGED <<sendVars, connVars, receiver, rcv_closed, rcv_queue, _header,
                   getVars>>

RecvPush(r) ==
    /\ recv[r].at = "push"
    /\ rcv_queue' = [rcv_queue EXCEPT ![r] = @ \o recv[r].msgs]
    /\ recv' = [recv EXCEPT ![r] = At("notify", <<>>)]
    /\ UNCHANGED <<sendVars, connVars, receiver, rcv_closed, _header, getVars>>

Asleep(r) == {g \in Getters : From[g] = r /\ getter[g] = "asleep"}

Tested(r) == {g \in Getters : From[g] = r /\ getter[g] = "tested"}

(* Mutant of RecvNotify: nobody is notified.                               *)
RecvNotifyNobody(r) ==
    /\ recv[r].at = "notify"
    /\ recv' = [recv EXCEPT ![r] = At("test", <<>>)]
    /\ UNCHANGED <<sendVars, connVars, receiver, rcv_closed, rcv_queue, _header,
                   getVars>>

RecvNotify(r) ==
    /\ recv[r].at = "notify"
    /\ recv' = [recv EXCEPT ![r] = At("test", <<>>)]
    /\ \/ \E g \in Asleep(r) : getter' = [getter EXCEPT ![g] = "awake"]
       \/ Asleep(r) = {} /\ UNCHANGED getter
    /\ passed' = passed \union Tested(r)
    /\ UNCHANGED <<sendVars, connVars, receiver, rcv_closed, rcv_queue, taken,
                   _header>>

-----------------------------------------------------------------------------
(* Get: a getter has the mutex from its test of the queue until it sleeps. *)
MutexFree(r) == Tested(r) = {}

GetTake(g) ==
    LET r == From[g] IN
    /\ getter[g] \in {"idle", "awake"} /\ receiver[r] \notin {"none", "accepting"}
    /\ MutexFree(r) /\ rcv_queue[r] # <<>>
    /\ taken' = [taken EXCEPT ![r] = Append(@, Head(rcv_queue[r]))]
    /\ rcv_queue' = [rcv_queue EXCEPT ![r] = Tail(@)]
    /\ getter' = [getter EXCEPT ![g] = "idle"]
    /\ passed' = passed \ {g}
    /\ UNCHANGED <<sendVars, connVars, receiver, recv, rcv_closed, _header>>

GetTest(g) ==
    LET r == From[g] IN
    /\ getter[g] \in {"idle", "awake"} /\ receiver[r] \notin {"none", "accepting"}
    /\ MutexFree(r) /\ rcv_queue[r] = <<>>
    /\ getter' = [getter EXCEPT ![g] = "tested"]
    /\ UNCHANGED <<sendVars, connVars, recvVars, passed, taken>>

GetSleep(g) ==
    /\ getter[g] = "tested"
    /\ getter' = [getter EXCEPT ![g] = "asleep"]
    /\ UNCHANGED <<sendVars, connVars, recvVars, passed, taken>>

SpuriousWakeup(g) ==
    /\ getter[g] = "asleep"
    /\ getter' = [getter EXCEPT ![g] = "awake"]
    /\ UNCHANGED <<sendVars, connVars, recvVars, passed, taken>>

(* Close.  A Get that is woken by it finds the queue empty and sleeps on.  *)
CloseReceiver(r) ==
    /\ receiver[r] = "open"
    /\ MutexFree(r)
    /\ rcv_closed' = [rcv_closed EXCEPT ![r] = TRUE]
    /\ receiver' = [receiver EXCEPT ![r] = "joining"]
    /\ getter' = [g \in Getters |-> IF g \in Asleep(r) THEN "awake" ELSE getter[g]]
    /\ UNCHANGED <<sendVars, connVars, recv, _header, rcv_queue, passed, taken>>

JoinReceiver(r) ==
    /\ receiver[r] = "joining"
    /\ recv[r].at = "end"
    /\ receiver' = [receiver EXCEPT ![r] = "closed"]
    /\ UNCHANGED <<sendVars, connVars, recv, rcv_closed, rcv_queue, _header,
                   getVars>>
-----------------------------------------------------------------------------
SenderThread(s)   == SendTake(s) \/ SendEnd(s) \/ SendWrite(s) \/ SendFails(s)
ReceiverThread(r) == \/ Listen(r) \/ Accept(r) \/ RecvTest(r) \/ RecvHeader(r) \/ RecvData(r)
                     \/ RecvEnd(r) \/ RecvFails(r) \/ RecvPush(r) \/ RecvNotify(r)

TcpNext ==
    \/ \E s \in Senders :
          \/ MakeSender(s) \/ Connect(s) \/ ConnectRefused(s) \/ SenderOpens(s)
          \/ \E size \in Sizes[s] : Send(s, size)
          \/ \E size \in Sizes[s] : SendDirect(s, size)
          \/ DirectWrite(s) \/ DirectFails(s)
          \/ SenderThread(s) \/ CloseSender(s) \/ JoinSender(s) \/ Crash(s) \/ Break(s)
    \/ \E r \in Receivers :
          MakeReceiver(r) \/ ReceiverThread(r) \/ CloseReceiver(r) \/ JoinReceiver(r)
    \/ \E g \in Getters : GetTake(g) \/ GetTest(g) \/ GetSleep(g) \/ SpuriousWakeup(g)

-----------------------------------------------------------------------------
(* The messages of a sender that are not empty: given to Send or written   *)
(* by SendDirect, arrived, and in between, oldest first.                   *)
Of(s, way, msgs) ==
    LET upto[n \in 0..Len(msgs)] ==
            IF n = 0 THEN <<>>
            ELSE IF msgs[n].from = s /\ msgs[n].way = way /\ msgs[n].size > 0
                 THEN Append(upto[n - 1], msgs[n]) ELSE upto[n - 1]
    IN  upto[Len(msgs)]

Due(s, way)       == Of(s, way, sent[s])
Received(s, way)  == Of(s, way, taken[To[s]] \o rcv_queue[To[s]])
Unwritten(writer) == IF writer.at = "header" THEN writer.msgs ELSE <<>>

(* A message is on the wire as long as its header is.                      *)
Announced(units) ==
    [n \in DOMAIN units |-> IF units[n].part = "header" THEN units[n].msg
                            ELSE [units[n].msg EXCEPT !.size = 0]]

OnItsWay(s, way) ==
    Of(s, way, recv[To[s]].msgs \o Announced(wire[s]) \o Unwritten(thread[s])
                   \o snd_queue[s])

(* The messages of a sender arrive whole and in order, each once, whatever *)
(* the other senders do and wherever the sender's program or connection    *)
(* ends; as long as neither did, none is missing.  (An empty message is    *)
(* nothing to a receiver.)  Those given to SendDirect keep their own order *)
(* and may overtake the others; only when it writes at the same time as    *)
(* the thread is the sender's stream spoiled, and not that of any other.   *)
(* When Close has returned, all that was given to Send was written, unless *)
(* the sender had no thread to write it (TCPManager.hpp:46-62, 115-170,    *)
(* 267-337).                                                               *)
StreamIntact ==
    \A s \in Senders :
        /\ s \notin mixed =>
              \A way \in {"queue", "direct"} :
                  /\ IsPrefix(Received(s, way), Due(s, way))
                  /\ (sender[s] # "crashed" /\ conn[s] # "reset") =>
                        Received(s, way) \o OnItsWay(s, way) = Due(s, way)
        /\ (sender[s] = "closed" /\ conn[s] = "closed" /\ thread[s].at # "stillborn")
              => snd_queue[s] = <<>>
=============================================================================
