------------------------------ MODULE EchoGate ------------------------------
(***************************************************************************)
(* EchoGate of breUtils/net/EchoGate.hpp, as test_EchoGate.hpp uses it:    *)
(* two gates, each in a thread of its own, call GetAESKey, which exchanges *)
(* a key over a TCPSender and a TCPReceiver of either gate, and are then   *)
(* destroyed.  What RSA computes is left out: a message stands for itself. *)
(*                                                                         *)
(* Gates are the Senders, the Receivers and the Getters of TcpManager.     *)
(***************************************************************************)
EXTENDS TcpManager

CONSTANTS Initiator,   \* the gate with m_is_sender
          Responder

Gates == {Initiator, Responder}

VARIABLE step    \* how many operations of its program each gate has done

gateVars == <<step, tcpVars>>

(* GetAESKey of either gate, and ~EchoGate.                                *)
Program ==
    [g \in Gates |->
        (IF g = Initiator
         THEN <<"connect", "send", "receive", "get", "get">>
         ELSE <<"receive", "get", "connect", "send", "send">>)
            \o <<"close sender", "close receiver">>]

KeyAt == 5       \* operations of GetAESKey

GateInit == TcpInit /\ step = [g \in Gates |-> 0]

Doing(g, op) == step[g] < Len(Program[g]) /\ Program[g][step[g] + 1] = op

Goes(g)  == step' = [step EXCEPT ![g] = @ + 1]
Stays    == UNCHANGED step

ConnectStep(g) == Doing(g, "connect") /\ \/ (MakeSender(g) \/ Connect(g) \/ ConnectRefused(g)) /\ Stays
                                         \/ SenderOpens(g) /\ Goes(g)
SendStep(g)    == Doing(g, "send") /\ (\E size \in Sizes[g] : Send(g, size)) /\ Goes(g)
ReceiveStep(g) == Doing(g, "receive") /\ \/ MakeReceiver(g) /\ Stays
                                         \/ receiver[g] = "accepting" /\ Listen(g) /\ Stays
                                         \/ receiver[g] = "accepting" /\ Accept(g) /\ Goes(g)
GetStep(g)     == Doing(g, "get") /\ \/ (GetTest(g) \/ GetSleep(g)) /\ Stays
                                     \/ GetTake(g) /\ Goes(g)
CloseStep(g)   == \/ Doing(g, "close sender") /\ \/ CloseSender(g) /\ Stays
                                                 \/ JoinSender(g) /\ Goes(g)
                  \/ Doing(g, "close receiver") /\ \/ CloseReceiver(g) /\ Stays
                                                   \/ JoinReceiver(g) /\ Goes(g)

GateStep(g) == ConnectStep(g) \/ SendStep(g) \/ ReceiveStep(g) \/ GetStep(g) \/ CloseStep(g)

(* The threads of its sender and its receiver.                             *)
BackgroundStep(g) ==
    /\ \/ SenderThread(g)
       \/ receiver[g] # "accepting" /\ ReceiverThread(g)
    /\ Stays

GateNext ==
    \E g \in Gates : \/ GateStep(g) \/ BackgroundStep(g)
                     \/ SpuriousWakeup(g) /\ Stays

(* Threads run on when they can.                                           *)
GateFairness == \A g \in Gates : WF_gateVars(GateStep(g)) /\ WF_gateVars(BackgroundStep(g))

GateSpec == GateInit /\ [][GateNext]_gateVars /\ GateFairness

-----------------------------------------------------------------------------
HasKey(g) == step[g] >= KeyAt

(* What can keep the gates from their key: a sender that was refused to    *)
(* the end, one whose thread ended before the constructor opened it, and a *)
(* Get that sleeps although the receiver has pushed, because it notified   *)
(* between the test of the queue and the sleep.                            *)
Refused(g)   == attempts[g] = Retries
Stillborn(g) == thread[g].at = "stillborn"
Missed(g)    == getter[g] = "asleep" /\ g \in passed

(* Nothing else can: both gates get the key, or one of these three is so   *)
(* for ever (EchoGate.hpp:31-78).                                          *)
ExchangeCompletes ==
    \/ <>(\A g \in Gates : HasKey(g))
    \/ <>[](\E g \in Gates : Refused(g) \/ Stillborn(g) \/ Missed(g))

(* The test compares the two keys after it has joined both threads         *)
(* (test_EchoGate.hpp:40-44): once both gates have the key their           *)
(* destructors return.                                                     *)
GatesReturn ==
    (\A g \in Gates : HasKey(g)) ~> (\A g \in Gates : step[g] = Len(Program[g]))
=============================================================================
