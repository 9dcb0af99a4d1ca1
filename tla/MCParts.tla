------------------------------ MODULE MCParts ------------------------------
(* Parts of the library that share nothing with each other and are checked *)
(* for safety only: BlockQueue with timed consumers, SnowWorker, Signal,   *)
(* Buffer, Flag, IniConfigLoad, and TcpManager with one receiver.  A       *)
(* behaviour is one of "part"; the others stay as they are.                *)
EXTENDS SnowWorker, Sequences, FiniteSets, TLC

CONSTANTS Producers, Consumers, TimedConsumers,     \* BlockQueue
          Controllers, Items, Capacity,
          Callables, NoObject, Groups, MaxSlots,    \* Signal
          Bytes, Strings, InitSize, MaxBytes,       \* Buffer
          TypeOf, Numbers, Arguments, MaxArguments, \* Flag
          SectionNames, Keys, Values, Comments, Noise,  \* IniConfigLoad
          Senders, Receivers, Getters, To, From, NoSender,      \* TcpManager
          Retries, Sizes, MaxMessages, Direct, Failing,
          tx1, tx2, tx3, rx

VARIABLES part,
          queue, isClose, condProducer, condConsumer, pc, arg, popped,
          m_slots, m_block, made, emission,
          buffer, readPos, writePos, waiting, ret,
          argv, i, value, args, parse,
          _config_map, current_section, first, meant, under,
          sender, attempts, snd_closed, snd_queue, thread, direct, sent, mixed,
          conn, wire, receiver, listening, backlog, _socket, recv, _header,
          rcv_closed, rcv_queue, getter, passed, taken

Q == INSTANCE BlockQueue WITH ret <- popped
S == INSTANCE Signal
B == INSTANCE Buffer
F == INSTANCE Flag
I == INSTANCE IniConfigLoad
T == INSTANCE TcpManager

ASSUME QueueAssumption  == /\ Capacity \in Nat \ {0}
                           /\ IsFiniteSet(Q!Threads)
                           /\ Producers \intersect Q!Takers = {}
                           /\ Controllers \intersect (Producers \union Q!Takers) = {}
                           /\ Consumers \intersect TimedConsumers = {}
                           /\ Items \intersect {Q!NoItem, Q!Waiting, Q!Refused} = {}
ASSUME SignalAssumption == Groups \subseteq Int
ASSUME FlagAssumption   == MaxArguments \in Nat
ASSUME IniAssumption    == /\ SectionNames \union Keys \union Values \union Noise \subseteq Seq(STRING)
                           /\ \A text \in SectionNames \union Keys \union Values \union Noise :
                                 \A n \in DOMAIN text : text[n] # ";"
                           /\ \A text \in Keys \union Noise : \A n \in DOMAIN text : text[n] # "="
                           /\ \A text \in Keys \union Values : I!Trim(text) = text
                           /\ \A key \in Keys : key # <<>> => Head(key) # "["
                           /\ \A text \in Noise : ~I!IsSection(I!Trim(text))
                           /\ \A text \in Comments : /\ text \in Seq(STRING)
                                                     /\ text # <<>> => Head(text) = ";"
ASSUME TcpAssumption    == /\ To \in [Senders -> Receivers] /\ NoSender \notin Senders
                           /\ From \in [Getters -> Receivers]
                           /\ Sizes \in [Senders -> SUBSET Nat]
ASSUME BufferAssumption == /\ InitSize \in Nat /\ Bytes # {}
                           /\ \A s \in Strings : s \in Seq(Bytes)

-----------------------------------------------------------------------------
(* Workers with one to three numbers per tick in three bits, and options   *)
(* that setOptions refuses.                                                *)
Options(bits, max, min) ==
    [SeqBitLength |-> bits, MaxSeqNumber |-> max, MinSeqNumber |-> min]

MCOptionChoices ==
    {Options(b, max, min) : b \in {1, 2, 3}, max \in {0, 5, 6, 9, 13},
                            min \in {4, 5, 6}}
MCTicks == -1..4

MCStrings == UNION {[1..n -> Bytes] : n \in 0..2}

MCCallables == {[fn |-> "f", obj |-> "null"], [fn |-> "m", obj |-> "o1"],
                [fn |-> "m", obj |-> "o2"]}

MCTypeOf == [b |-> "bool", n |-> "int", u |-> "uint", s |-> "string"]

Arg(dashes, word, rest) == [dashes |-> dashes, text |-> word, rest |-> rest]

MCArguments ==
    {Arg(1, f, "none") : f \in DOMAIN MCTypeOf}
        \union {Arg(0, t, "none") : t \in {"5", "T", "0", "x", ""}}
        \union {Arg(1, "5", "none"), Arg(2, "b", "none"), Arg(3, "b", "none"),
                Arg(2, "n", "5"),
                Arg(1, "b", "T"), Arg(1, "b", "false"), Arg(1, "n", "5"), Arg(1, "n", "x")}

MCSectionNames == {<<"s">>, <<" ", "=">>}
MCKeys         == {<<"k">>, <<"k", " ", "]">>}
MCValues       == {<<"v", "=", "w">>, <<"[", " ", "v", "]">>}
MCComments     == {<<>>, <<";", "[", "=">>}
MCNoise        == {<<>>, <<"v">>, <<"[", "s">>}

MCTo          == [s \in Senders |-> rx]
MCFrom        == [g \in Getters |-> rx]
MCSizes       == tx1 :> {1} @@ tx2 :> {0, 1} @@ tx3 :> {1}
MCMaxMessages == tx1 :> 2 @@ tx2 :> 1 @@ tx3 :> 2

-----------------------------------------------------------------------------
workerVars == vars
queueVars  == <<queue, isClose, condProducer, condConsumer, pc, arg, popped>>
signalVars == <<m_slots, m_block, made, emission>>
bufferVars == <<buffer, readPos, writePos, waiting, ret>>
flagVars   == <<argv, i, value, args, parse>>
iniVars    == <<_config_map, current_section, first, meant, under>>
tcpVars    == <<sender, attempts, snd_closed, snd_queue, thread, direct, sent, mixed,
                conn, wire, receiver, listening, backlog, _socket, recv, _header,
                rcv_closed, rcv_queue, getter, passed, taken>>
textVars   == <<flagVars, iniVars>>
restVars   == <<queueVars, signalVars, bufferVars, textVars, tcpVars>>

(* One worker and one command line for the behaviours of the other parts.  *)
WorkerStays == /\ seqRange = 8 /\ minSeqNumber = 5 /\ maxSeqNumber = 7
               /\ lastTimeTick = 0 /\ currentSeqNumber = 5
               /\ id = -1 /\ latest = 0 /\ issued = 0
FlagStays   == /\ argv = <<>> /\ i = 1 /\ args = <<>> /\ parse = "stopped"
               /\ value = [f \in DOMAIN TypeOf |-> <<"default">>]

(* The senders of a behaviour of TcpManager: those that only use Send, to  *)
(* receivers whose queue nobody empties ("tcp"), or those that also send   *)
(* directly, to receivers with getters ("direct").                         *)
Uses(senders) == \A s \in Senders \ senders : sender'[s] = "none"

PartsInit ==
    /\ part \in {"worker", "queue", "signal", "buffer", "flag", "ini", "tcp", "direct"}
    /\ IF part = "worker" THEN Init ELSE WorkerStays
    /\ IF part = "flag" THEN F!FlagInit ELSE FlagStays
    /\ I!IniInit
    /\ Q!Init
    /\ S!SigInit
    /\ B!BufInit
    /\ T!TcpInit

PartsNext ==
    /\ UNCHANGED part
    /\ \/ part = "worker" /\ Next /\ UNCHANGED restVars
       \/ part = "queue" /\ Q!Next
             /\ UNCHANGED <<workerVars, signalVars, bufferVars, textVars, tcpVars>>
       \/ part = "signal" /\ S!SigNext
             /\ UNCHANGED <<workerVars, queueVars, bufferVars, textVars, tcpVars>>
       \/ part = "buffer" /\ B!BufNext
             /\ UNCHANGED <<workerVars, queueVars, signalVars, textVars, tcpVars>>
       \/ part = "flag" /\ F!FlagNext
             /\ UNCHANGED <<workerVars, queueVars, signalVars, bufferVars, iniVars, tcpVars>>
       \/ part = "ini" /\ I!IniNext
             /\ UNCHANGED <<workerVars, queueVars, signalVars, bufferVars, flagVars, tcpVars>>
       \/ part = "tcp" /\ T!TcpNext /\ Uses(Senders \ Direct) /\ UNCHANGED <<getter, taken>>
             /\ UNCHANGED <<workerVars, queueVars, signalVars, bufferVars, textVars>>
       \/ part = "direct" /\ T!TcpNext /\ Uses(Direct)
             /\ UNCHANGED <<workerVars, queueVars, signalVars, bufferVars, textVars>>

PartsSpec == PartsInit /\ [][PartsNext]_<<part, workerVars, restVars>>

(* An invariant of a part is looked at in the behaviours of that part.     *)
NoLostRoom           == part = "queue" => Q!NoLostRoom
EmissionReachesSlots == part = "signal" => S!EmissionReachesSlots
DisconnectsMatching  == S!DisconnectsMatching
BytesInOrder         == part = "buffer" => B!BytesInOrder
EveryArgumentIsRead  == part = "flag" => F!EveryArgumentIsRead
LastAssignmentHolds  == part = "ini" => I!LastAssignmentHolds
StreamIntact         == part \in {"tcp", "direct"} => T!StreamIntact
=============================================================================
