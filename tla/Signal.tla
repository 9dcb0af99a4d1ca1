------------------------------- MODULE Signal -------------------------------
(***************************************************************************)
(* Signal of breUtils/signal/Signal.hpp: slots in groups that are kept in  *)
(* ascending order; Emit calls the slots in that order.  Every operation   *)
(* holds m_mutex, but Emit does so only while it fetches a reference to    *)
(* m_slots: the slots may change between two of its calls, through another *)
(* thread or through the slot it calls.  A change to a vector Emit is      *)
(* iterating over leaves its iterators dangling; nothing is said of the    *)
(* program after that.                                                     *)
(*                                                                         *)
(* Connect returns no connection object, so nobody can call disconnect or  *)
(* block of a slot: a slot in m_slots is connected and not blocked.        *)
(***************************************************************************)
EXTENDS Naturals, Sequences, FiniteSets, SequencesExt

CONSTANTS Callables,   \* what can be connected: a function and an object,
                       \* NoObject unless it is a member function
          NoObject,
          Groups,      \* group ids
          MaxSlots     \* bound: slots made in a behaviour

VARIABLES m_slots,   \* the groups in order, each with its slots
          m_block,
          made,      \* how many slots were made; the last one's identity
          emission   \* where Emit is, and which slots it has called

sigVars == <<m_slots, m_block, made, emission>>

Ids(slts)    == {slts[n].id : n \in DOMAIN slts}
Connected    == UNION {Ids(m_slots[g].slts) : g \in DOMAIN m_slots}
Find(gid)    == {g \in DOMAIN m_slots : m_slots[g].gid = gid}
NoEmission   == [at |-> "none"]

SigInit ==
    /\ m_slots = <<>>
    /\ m_block = FALSE
    /\ made = 0
    /\ emission = NoEmission

-----------------------------------------------------------------------------
(* What becomes of an emission when the vector of groups, or the slots of  *)
(* the group it is in, are changed under its iterators.                    *)
Dangling == [at |-> "dangling"]

EmissionIn(g) == emission.at = "slot" /\ emission.g = g

Disturb(changed) ==
    emission' = IF emission.at = "slot" /\ changed THEN Dangling ELSE emission

-----------------------------------------------------------------------------
(* Mutant of Place: groups are kept in the order they were made in.        *)
PlaceLast(gid) == Len(m_slots) + 1

(* Where the group gid is, or where it has to be inserted.                 *)
Place(gid) == 1 + Cardinality({g \in DOMAIN m_slots : m_slots[g].gid < gid})

NewSlot(c, slts) == [id |-> made + 1, fn |-> c.fn, obj |-> c.obj, index |-> Len(slts)]

(* push_back may keep the memory or move the vector.                       *)
Connect(c, gid) ==
    /\ made < MaxSlots
    /\ made' = made + 1
    /\ \/ \E g \in Find(gid) :
             /\ m_slots' = [m_slots EXCEPT ![g].slts = Append(@, NewSlot(c, @))]
             /\ \/ UNCHANGED emission
                \/ Disturb(EmissionIn(g))
       \/ /\ Find(gid) = {}
          /\ m_slots' = InsertAt(m_slots, Place(gid),
                                 [gid |-> gid, slts |-> <<NewSlot(c, <<>>)>>])
          /\ Disturb(TRUE)
    /\ UNCHANGED m_block

SwapOut(slts, n) ==
    Front([slts EXCEPT ![n] = [Last(slts) EXCEPT !.index = n - 1]])

(* Mutant of Pass: the slot that was swapped in is not looked at.          *)
PassSkips(acc, hit) ==
    IF acc.n > Len(acc.slts) THEN acc
    ELSE [slts |-> IF acc.slts[acc.n].id \in hit THEN SwapOut(acc.slts, acc.n) ELSE acc.slts,
          n    |-> acc.n + 1]

(* The loop of disconnect_if: a slot that matches is swapped with the last *)
(* one and popped; the one that took its place is looked at next.          *)
Pass(acc, hit) ==
    IF acc.n > Len(acc.slts) THEN acc
    ELSE IF acc.slts[acc.n].id \in hit
         THEN [slts |-> SwapOut(acc.slts, acc.n), n |-> acc.n]
         ELSE [slts |-> acc.slts, n |-> acc.n + 1]

Filter(slts, hit) ==
    LET after[k \in 0..Len(slts)] ==
            IF k = 0 THEN [slts |-> slts, n |-> 1] ELSE Pass(after[k - 1], hit)
    IN  after[Len(slts)].slts

(* A callable, an object (to_weak and get_object_ptr: its address) or both *)
(* may be given; a function object is recognised by its type.              *)
Matching(crit) ==
    {s.id : s \in {x \in UNION {Range(m_slots[g].slts) : g \in DOMAIN m_slots} :
                      x.fn \in crit.fn /\ x.obj \in crit.obj}}

disconnect_if(crit) ==
    /\ m_slots' = [g \in DOMAIN m_slots |->
                      [m_slots[g] EXCEPT !.slts = Filter(@, Matching(crit))]]
    /\ Disturb(\E g \in DOMAIN m_slots : /\ EmissionIn(g)
                                         /\ Ids(m_slots[g].slts) \intersect Matching(crit) # {})
    /\ UNCHANGED <<m_block, made>>

AnyFn  == {c.fn : c \in Callables}
AnyObj == {c.obj : c \in Callables}

DisconnectCallable(c) == disconnect_if([fn |-> {c.fn}, obj |-> AnyObj])
DisconnectObject(c)   == c.obj # NoObject /\ disconnect_if([fn |-> AnyFn, obj |-> {c.obj}])
DisconnectBoth(c)     == c.obj # NoObject /\ disconnect_if([fn |-> {c.fn}, obj |-> {c.obj}])

(* The group stays, without a slot.                                        *)
DisconnectGroup(gid) ==
    /\ \E g \in Find(gid) :
          /\ m_slots' = [m_slots EXCEPT ![g].slts = <<>>]
          /\ Disturb(EmissionIn(g))
    /\ UNCHANGED <<m_block, made>>

Disconnect_all ==
    /\ m_slots' = <<>>
    /\ Disturb(TRUE)
    /\ UNCHANGED <<m_block, made>>

Block   == m_block' = TRUE /\ UNCHANGED <<m_slots, made, emission>>
Unblock == m_block' = FALSE /\ UNCHANGED <<m_slots, made, emission>>

-----------------------------------------------------------------------------
(* An emission: "slot" while it is inside the call of slot k of group g.   *)
(* The ends of both loops were read when they began.                       *)
Call(g, k) == [id |-> m_slots[g].slts[k].id, gid |-> m_slots[g].gid]

(* The call of the first slot after group g, or the end.                   *)
NextGroup(g, called, began) ==
    LET later == {h \in DOMAIN m_slots : h > g /\ m_slots[h].slts # <<>>}
        h     == CHOOSE x \in later : \A y \in later : x <= y
    IN  IF later = {} THEN [at |-> "done", called |-> called, began |-> began]
        ELSE [at |-> "slot", g |-> h, k |-> 1, kend |-> Len(m_slots[h].slts),
              called |-> Append(called, Call(h, 1)), began |-> began]

EmitBegin ==
    /\ emission.at \in {"none", "done"}
    /\ ~m_block
    /\ emission' = NextGroup(0, <<>>, Connected)
    /\ UNCHANGED <<m_slots, m_block, made>>

EmitNext ==
    /\ emission.at = "slot"
    /\ LET e == emission IN
         emission' = IF e.k < e.kend
                     THEN [e EXCEPT !.k = @ + 1, !.called = Append(@, Call(e.g, e.k + 1))]
                     ELSE NextGroup(e.g, e.called, e.began)
    /\ UNCHANGED <<m_slots, m_block, made>>

SigNext ==
    \/ \E c \in Callables : \/ \E gid \in Groups : Connect(c, gid)
                            \/ DisconnectCallable(c) \/ DisconnectObject(c)
                            \/ DisconnectBoth(c)
    \/ \E gid \in Groups : DisconnectGroup(gid)
    \/ Disconnect_all \/ Block \/ Unblock
    \/ EmitBegin \/ EmitNext

-----------------------------------------------------------------------------
(* The groups ascend, each once, and every slot knows its own index: what  *)
(* Emit's order, the search for a group and clean rely on.                 *)
SlotsInOrder ==
    /\ \A g, h \in DOMAIN m_slots : g < h => m_slots[g].gid < m_slots[h].gid
    /\ \A g \in DOMAIN m_slots : \A n \in DOMAIN m_slots[g].slts :
          m_slots[g].slts[n].index = n - 1

(* Through any sequence of swaps and pops the slots stay in order, and an  *)
(* emission whose vectors nobody changed under it has called, in the order *)
(* of the groups and each once, every slot that was connected from its     *)
(* beginning to its end (Signal.hpp:590-604, 798-843).                     *)
EmissionReachesSlots ==
    /\ SlotsInOrder
    /\ emission.at = "done" =>
          LET called == emission.called IN
          /\ emission.began \intersect Connected \subseteq Ids(called)
          /\ \A m, n \in DOMAIN called :
                m < n => called[m].id # called[n].id /\ called[m].gid <= called[n].gid

(* Disconnect takes out every slot that matches and no other, wherever the *)
(* swaps move them while it runs (Signal.hpp:822-843).                     *)
DisconnectsMatching ==
    [][\A c \in Callables :
          /\ DisconnectCallable(c) =>
                Connected' = Connected \ Matching([fn |-> {c.fn}, obj |-> AnyObj])
          /\ DisconnectObject(c) =>
                Connected' = Connected \ Matching([fn |-> AnyFn, obj |-> {c.obj}])]_sigVars
=============================================================================
