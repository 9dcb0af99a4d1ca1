---------------------------- MODULE MCTransfers ----------------------------
(* Two ways to transfer data from program to program, which share nothing: *)
(* a behaviour is one of UdpTransfer, with two messages of two fragments   *)
(* and one of one, or one of two EchoGates that exchange a key.            *)
EXTENDS UdpTransfer, TLC

CONSTANTS a, b, short,                     \* UdpTransfer's messages
          Initiator, Responder, NoSender   \* gates

VARIABLES
    part,
    step,
    sender, attempts, snd_closed, snd_queue, thread, direct, given, mixed, conn, wire,
    receiver, listening, backlog, _socket, recv, _header, rcv_closed, rcv_queue, getter,
    passed, taken

MCPackets == a :> 2 @@ b :> 2 @@ short :> 1

Gates == {Initiator, Responder}

G == INSTANCE EchoGate WITH
        Senders <- Gates, Receivers <- Gates, Getters <- Gates,
        To <- Initiator :> Responder @@ Responder :> Initiator,
        From <- Initiator :> Initiator @@ Responder :> Responder,
        Retries <- 3, Sizes <- [x \in Gates |-> {1}],
        MaxMessages <- [x \in Gates |-> 2], Direct <- {}, Failing <- {},
        sent <- given

-----------------------------------------------------------------------------
udpVars  == vars
gateVars == <<step, sender, attempts, snd_closed, snd_queue, thread, direct, given, mixed,
              conn, wire, receiver, listening, backlog, _socket, recv, _header,
              rcv_closed, rcv_queue, getter, passed, taken>>

(* In a behaviour of UdpTransfer the gates have returned already.          *)
TransfersInit ==
    /\ part \in {"udp", "gates"}
    /\ Init
    /\ G!TcpInit
    /\ step = [x \in Gates |-> IF part = "gates" THEN 0 ELSE Len(G!Program[x])]

TransfersNext ==
    /\ UNCHANGED part
    /\ \/ part = "udp" /\ Next /\ UNCHANGED gateVars
       \/ part = "gates" /\ G!GateNext /\ UNCHANGED udpVars

(* What is fair in one part is never enabled in a behaviour of the other.  *)
TransfersSpec ==
    /\ TransfersInit /\ [][TransfersNext]_<<part, udpVars, gateVars>>
    /\ Fairness /\ G!GateFairness

ExchangeCompletes == G!ExchangeCompletes
GatesReturn       == G!GatesReturn
=============================================================================
