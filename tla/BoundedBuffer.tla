--------------------------- MODULE BoundedBuffer ---------------------------
(***************************************************************************)
(* What a blocking queue of breUtils promises to its callers, without the  *)
(* mutex and the condition variables that keep the promise: a FIFO buffer  *)
(* of at most Capacity items.  An item goes in once and comes out once; a  *)
(* call that cannot be served waits; a waiting untimed call is refused     *)
(* only once the buffer was closed.                                        *)
(***************************************************************************)
EXTENDS Naturals, Sequences

CONSTANTS Producers,       \* threads that put items in
          Consumers,       \* threads that take items out, without a timeout
          TimedConsumers,  \* threads that take items out, with a timeout
          Items,
          Capacity

VARIABLES buffer,   \* the items that are in, oldest first
          closed,
          want,     \* the item a waiting producer still has to put in
          got       \* what a consumer's latest call came to

bbVars == <<buffer, closed, want, got>>

NoItem  == "NoItem"     \* a producer with no call under way
Waiting == "Waiting"    \* a consumer whose call is under way
Refused == "Refused"    \* a consumer whose latest call returned false

Takers == Consumers \union TimedConsumers

Init == /\ buffer = <<>>
        /\ closed = FALSE
        /\ want = [p \in Producers |-> NoItem]
        /\ got = [c \in Takers |-> Refused]

(* A producer finds no room and waits with its item. *)
Offer(p, v) == /\ want[p] = NoItem
               /\ Len(buffer) >= Capacity
               /\ want' = [want EXCEPT ![p] = v]
               /\ UNCHANGED <<buffer, closed, got>>

(* The item of a call, waiting or new, becomes the youngest one. *)
Put(p, v) == /\ want[p] \in {NoItem, v}
             /\ Len(buffer) < Capacity
             /\ buffer' = Append(buffer, v)
             /\ want' = [want EXCEPT ![p] = NoItem]
             /\ UNCHANGED <<closed, got>>

(* A consumer finds nothing and waits. *)
Ask(c) == /\ got[c] # Waiting
          /\ buffer = <<>>
          /\ got' = [got EXCEPT ![c] = Waiting]
          /\ UNCHANGED <<buffer, closed, want>>

(* The oldest item goes to one consumer. *)
Take(c) == /\ buffer # <<>>
           /\ got' = [got EXCEPT ![c] = Head(buffer)]
           /\ buffer' = Tail(buffer)
           /\ UNCHANGED <<closed, want>>

(* A call returns without an item: never, for an untimed call, unless the  *)
(* buffer was closed.                                                      *)
Refuse(c) == /\ got[c] = Waiting
             /\ closed \/ c \in TimedConsumers
             /\ got' = [got EXCEPT ![c] = Refused]
             /\ UNCHANGED <<buffer, closed, want>>

(* Closing discards what is in. *)
Discard == /\ buffer' = <<>>
           /\ closed' = TRUE
           /\ UNCHANGED <<want, got>>

Next == \/ \E p \in Producers, v \in Items : Offer(p, v) \/ Put(p, v)
        \/ \E c \in Takers : Ask(c) \/ Take(c) \/ Refuse(c)
        \/ Discard

Spec == Init /\ [][Next]_bbVars
=============================================================================
