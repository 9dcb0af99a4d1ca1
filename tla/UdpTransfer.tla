----------------------------- MODULE UdpTransfer -----------------------------
(***************************************************************************)
(* breUtils/net/UDPManager.hpp: UdpSender cuts a message into numbered     *)
(* fragments, UdpReceiver collects them by group_id, in whatever order the *)
(* network brings them, and hands a complete group to the callback.  There *)
(* are no acknowledgements, no retransmissions and no timeouts, and a      *)
(* group is known by its group_id alone, whoever sent it.                  *)
(*                                                                         *)
(* A fragment is its number and the message it is cut from.                *)
(***************************************************************************)
EXTENDS Integers, FiniteSets, Sequences, Functions

CONSTANTS Senders,       \* UdpSender objects that send to the receiver
          Messages,      \* messages, each sent once
          Packets,       \* [Messages -> Nat]: the fragments a message needs
          GroupIds,      \* how many values a group_id has: 2^32
          MaxDuplicates, \* bound: fragments the network may duplicate
          MaxRestarts    \* bound: senders that may start anew

ASSUME PacketsAssumption == Packets \in [Messages -> Nat]
ASSUME BoundsAssumption  == GroupIds \in Nat \ {0} /\ MaxDuplicates \in Nat
                                                   /\ MaxRestarts \in Nat

VARIABLES group_id_,   \* of each sender
          sending,     \* the Send each sender is inside of, or Idle
          sent,        \* history: the messages and the group_id they had
          net,         \* fragments in flight
          lossy,       \* history: a fragment was lost or never sent
          duplicates,  \* history: fragments duplicated so far
          restarts,    \* history: senders restarted so far
          m_groups,    \* of the receiver: groups not complete yet
          delivered    \* what the callback was called with

vars == <<group_id_, sending, sent, net, lossy, duplicates, restarts, m_groups,
          delivered>>

Idle == [state |-> "idle"]

TypeOK ==
    /\ group_id_ \in [Senders -> 0..(GroupIds - 1)]
    /\ sending \in [Senders -> {Idle} \union
                      [state : {"sending"}, group_id : 0..(GroupIds - 1),
                       msg : Messages, next : Nat]]
    /\ \A s \in Senders : sending[s] # Idle =>
          /\ [group_id |-> sending[s].group_id, msg |-> sending[s].msg] \in sent
          /\ sending[s].next < Packets[sending[s].msg]
    /\ sent \subseteq [group_id : 0..(GroupIds - 1), msg : Messages]
    /\ \A p \in net : /\ [group_id |-> p.group_id, msg |-> p.msg] \in sent
                      /\ p.packet_id \in 0..(p.total_packets - 1)
                      /\ p.total_packets = Packets[p.msg]
    /\ lossy \in BOOLEAN
    /\ duplicates \in 0..MaxDuplicates
    /\ restarts \in 0..MaxRestarts
    /\ DOMAIN m_groups \subseteq {x.group_id : x \in sent}
    /\ \A g \in DOMAIN m_groups :
          \E x \in sent : /\ x.group_id = g
                         /\ m_groups[g].total_packets = Packets[x.msg]

Init ==
    /\ group_id_ = [s \in Senders |-> 0]
    /\ sending = [s \in Senders |-> Idle]
    /\ sent = {}
    /\ net = {}
    /\ lossy = FALSE
    /\ duplicates = 0
    /\ restarts = 0
    /\ m_groups = <<>>
    /\ delivered = <<>>

-----------------------------------------------------------------------------
(* The sender.                                                             *)
receiverVars == <<m_groups, delivered>>

(* An empty message takes a group_id and sends nothing.                    *)
Send(s, m) ==
    /\ sending[s] = Idle
    /\ m \notin {x.msg : x \in sent}
    /\ LET g == (group_id_[s] + 1) % GroupIds
       IN  /\ group_id_' = [group_id_ EXCEPT ![s] = g]
           /\ sent' = sent \union {[group_id |-> g, msg |-> m]}
           /\ sending' = [sending EXCEPT ![s] =
                 IF Packets[m] = 0 THEN Idle
                 ELSE [state |-> "sending", group_id |-> g, msg |-> m, next |-> 0]]
    /\ UNCHANGED <<net, lossy, duplicates, restarts, receiverVars>>

(* Mutant of Fragment: fragments are numbered from one.                    *)
FragmentFromOne(snd) ==
    [group_id |-> snd.group_id, packet_id |-> snd.next + 1,
     total_packets |-> Packets[snd.msg], msg |-> snd.msg]

Fragment(snd) ==
    [group_id |-> snd.group_id, packet_id |-> snd.next,
     total_packets |-> Packets[snd.msg], msg |-> snd.msg]

SendFragment(s) ==
    LET snd == sending[s]
    IN  /\ snd # Idle
        /\ net' = net \union {Fragment(snd)}
        /\ sending' = [sending EXCEPT ![s] =
              IF snd.next + 1 = Packets[snd.msg]
              THEN Idle ELSE [snd EXCEPT !.next = snd.next + 1]]
        /\ UNCHANGED <<group_id_, sent, lossy, duplicates, restarts, receiverVars>>

(* send_to throws out of Send.                                             *)
SendFails(s) ==
    /\ sending[s] # Idle
    /\ sending' = [sending EXCEPT ![s] = Idle]
    /\ lossy' = TRUE
    /\ UNCHANGED <<group_id_, sent, net, duplicates, restarts, receiverVars>>

(* The program of the sender ends, wherever it is, and starts again: its   *)
(* group_id_ is zero, while the receiver knows the groups it sent before.  *)
Restart(s) ==
    /\ restarts < MaxRestarts
    /\ restarts' = restarts + 1
    /\ group_id_' = [group_id_ EXCEPT ![s] = 0]
    /\ sending' = [sending EXCEPT ![s] = Idle]
    /\ lossy' = (lossy \/ sending[s] # Idle)
    /\ UNCHANGED <<sent, net, duplicates, receiverVars>>

-----------------------------------------------------------------------------
(* The network.                                                            *)
Lose(p) ==
    /\ p \in net
    /\ net' = net \ {p}
    /\ lossy' = TRUE
    /\ UNCHANGED <<group_id_, sending, sent, duplicates, restarts, receiverVars>>

-----------------------------------------------------------------------------
(* The receiver.                                                           *)

(* map[key] = value.                                                       *)
Insert(map, key, value) ==
    [k \in DOMAIN map \union {key} |-> IF k = key THEN value ELSE map[k]]

(* The first packet of a group fixes total_packets; a packet that is there *)
(* already is overwritten.                                                 *)
Stored(p) ==
    LET old == IF p.group_id \in DOMAIN m_groups
               THEN m_groups[p.group_id]
               ELSE [total_packets |-> 0, packets |-> <<>>]
    IN  [total_packets |-> IF old.total_packets = 0 THEN p.total_packets
                                                    ELSE old.total_packets,
         packets |-> Insert(old.packets, p.packet_id, p.msg)]

(* Mutant of IsGroupComplete: the packets are only counted.                *)
IsGroupCompleteCounting(info) ==
    Cardinality(DOMAIN info.packets) + 1 >= info.total_packets

IsGroupComplete(info) ==
    /\ Cardinality(DOMAIN info.packets) = info.total_packets
    /\ \A i \in 0..(info.total_packets - 1) : i \in DOMAIN info.packets

MergeGroup(info) ==
    [i \in 0..(info.total_packets - 1) |->
        IF i \in DOMAIN info.packets THEN info.packets[i] ELSE "nothing"]

(* Mutant of HandleComplete: the group is delivered and kept.              *)
HandleCompleteKeeps(g, info) ==
    /\ delivered' = Append(delivered, MergeGroup(info))
    /\ m_groups' = Insert(m_groups, g, info)

HandleComplete(g, info) ==
    /\ delivered' = Append(delivered, MergeGroup(info))
    /\ m_groups' = Restrict(m_groups, DOMAIN m_groups \ {g})

HandlePacket(p) ==
    LET info == Stored(p)
    IN  IF IsGroupComplete(info)
        THEN HandleComplete(p.group_id, info)
        ELSE m_groups' = Insert(m_groups, p.group_id, info) /\ UNCHANGED delivered

(* A datagram arrives; the network may have another copy of it.            *)
Receive(p) ==
    /\ p \in net
    /\ HandlePacket(p)
    /\ \/ net' = net \ {p} /\ UNCHANGED duplicates
       \/ /\ duplicates < MaxDuplicates
          /\ duplicates' = duplicates + 1
          /\ UNCHANGED net
    /\ UNCHANGED <<group_id_, sending, sent, lossy, restarts>>

-----------------------------------------------------------------------------
Next ==
    \/ \E s \in Senders : \/ \E m \in Messages : Send(s, m)
                          \/ SendFragment(s) \/ SendFails(s) \/ Restart(s)
    \/ \E p \in net : Lose(p) \/ Receive(p)

Spec == Init /\ [][Next]_vars

(* A Send goes on, and a datagram in flight arrives if it is not lost.     *)
Fairness == /\ \A s \in Senders : WF_vars(SendFragment(s))
            /\ WF_vars(\E p \in net : Receive(p))

FairSpec == Spec /\ Fairness

-----------------------------------------------------------------------------
(* No two messages had the same group_id: neither of two senders, nor of   *)
(* one before and after its restart, nor after 2^32 messages.              *)
UniqueGroupIds ==
    \A x, y \in sent : x.group_id = y.group_id => x.msg = y.msg

Whole(m) == [i \in 0..(Packets[m] - 1) |-> m]

(* As long as group_ids were unique the callback only gets what was sent,  *)
(* whole and unmixed, however fragments were lost, duplicated or reordered *)
(* (UDPManager.hpp:116-175).  Otherwise fragments of two messages can be   *)
(* merged into one.                                                        *)
DeliveredIntact ==
    UniqueGroupIds => Range(delivered) \subseteq {Whole(x.msg) : x \in sent}

Deliveries(m) == Cardinality({i \in DOMAIN delivered : delivered[i] = Whole(m)})

(* The receiver forgets a group when it has delivered it: a message is     *)
(* delivered again only if all its fragments were duplicated.              *)
AgainOnlyIfAllDuplicated ==
    UniqueGroupIds =>
        \A x \in sent :
            Packets[x.msg] * (Deliveries(x.msg) - 1) <= duplicates

(* All messages that were sent are delivered if the network loses nothing. *)
DeliveredIfNothingLost ==
    []<>(\/ lossy \/ ~UniqueGroupIds
         \/ \A x \in sent : Packets[x.msg] > 0 => Deliveries(x.msg) > 0)
=============================================================================
