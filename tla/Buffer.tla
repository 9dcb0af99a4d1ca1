------------------------------- MODULE Buffer -------------------------------
(***************************************************************************)
(* Buffer of breUtils/Buffer.hpp: bytes are appended at writePos and       *)
(* retrieved at readPos of an array that grows, or whose readable part is  *)
(* moved to the front, when the room behind writePos is too small.         *)
(* Appending a Buffer to itself is left out.                               *)
(***************************************************************************)
EXTENDS Naturals, Sequences

CONSTANTS Bytes,
          Strings,   \* what may be appended, or searched for
          InitSize,  \* the argument of the constructor
          MaxBytes   \* bound: bytes that may wait in the buffer

VARIABLES buffer, readPos, writePos,
          waiting,   \* history: the bytes appended and not yet retrieved
          ret        \* history: what the last call returned, and should have

bufVars == <<buffer, readPos, writePos, waiting, ret>>

Zero == CHOOSE b \in Bytes : TRUE     \* what the array is filled with

Filled(n) == [k \in 1..n |-> Zero]

BufInit ==
    /\ buffer = Filled(InitSize)
    /\ readPos = 0 /\ writePos = 0
    /\ waiting = <<>>
    /\ ret = [is |-> <<>>, due |-> <<>>]

WritableBytes == Len(buffer) - writePos
ReadableBytes == writePos - readPos
Peek(n)       == SubSeq(buffer, readPos + 1, readPos + n)

(* The array with s at position p, which lies within it.                   *)
Write(array, p, s) ==
    [k \in 1..Len(array) |-> IF k \in p + 1..p + Len(s) THEN s[k - p] ELSE array[k]]

(* Mutant of Expanded: readPos stays where it was.                         *)
ExpandedStays(len) ==
    [array |-> IF WritableBytes + readPos < len
               THEN buffer \o Filled(len - WritableBytes) ELSE Write(buffer, 0, Peek(ReadableBytes)),
     read |-> readPos, write |-> ReadableBytes]

(* expandBuffer: the array and the two positions afterwards.               *)
Expanded(len) ==
    IF WritableBytes + readPos < len
    THEN [array |-> buffer \o Filled(writePos + len - Len(buffer)),
          read |-> readPos, write |-> writePos]
    ELSE [array |-> Write(buffer, 0, Peek(ReadableBytes)),
          read |-> 0, write |-> ReadableBytes]

AppendBytes(str) ==
    /\ Len(waiting) + Len(str) <= MaxBytes
    /\ LET room == [array |-> buffer, read |-> readPos, write |-> writePos]
           e    == IF WritableBytes < Len(str) THEN Expanded(Len(str)) ELSE room
       IN  /\ buffer' = Write(e.array, e.write, str)
           /\ readPos' = e.read
           /\ writePos' = e.write + Len(str)
    /\ waiting' = waiting \o str
    /\ UNCHANGED ret

(* A length beyond the readable bytes throws and changes nothing.          *)
Take(len) ==
    /\ readPos' = readPos + len
    /\ waiting' = SubSeq(waiting, len + 1, Len(waiting))
    /\ ret' = [is |-> Peek(len), due |-> SubSeq(waiting, 1, len)]
    /\ UNCHANGED <<buffer, writePos>>

Retrieve(len) == len <= ReadableBytes /\ Take(len)

(* The positions behind an occurrence of end in s.                         *)
Ends(s, end) == {p \in Len(end)..Len(s) : SubSeq(s, p - Len(end) + 1, p) = end}
First(S)     == CHOOSE p \in S : \A q \in S : p <= q

RetrieveUntil(end) ==
    LET text == Peek(ReadableBytes) IN
    \/ Ends(text, end) # {} /\ Retrieve(First(Ends(text, end)))
    \/ /\ Ends(text, end) = {}
       /\ ret' = [is |-> <<>>, due |-> <<>>]
       /\ UNCHANGED <<buffer, readPos, writePos, waiting>>

Clear ==
    /\ readPos' = 0 /\ writePos' = 0
    /\ waiting' = <<>>
    /\ UNCHANGED <<buffer, ret>>

RetrieveAll ==
    /\ ret' = [is |-> Peek(ReadableBytes), due |-> waiting]
    /\ readPos' = 0 /\ writePos' = 0
    /\ waiting' = <<>>
    /\ UNCHANGED buffer

(* The source of a move: an empty array, both positions at 0.  (The target *)
(* takes over what this one was.)                                          *)
MoveOut ==
    /\ buffer' = <<>>
    /\ readPos' = 0 /\ writePos' = 0
    /\ waiting' = <<>>
    /\ UNCHANGED ret

BufNext ==
    \/ \E str \in Strings : AppendBytes(str) \/ RetrieveUntil(str)
    \/ \E len \in 0..Len(buffer) : Retrieve(len)
    \/ Clear \/ RetrieveAll \/ MoveOut

-----------------------------------------------------------------------------
(* The Buffer is a queue of bytes: through any sequence of growing, moving *)
(* and retrieving, what is readable is what was appended and not yet       *)
(* retrieved, in order, and what a call returned is what was due; the      *)
(* positions stay in the array (Buffer.hpp:44-113).                        *)
BytesInOrder ==
    /\ readPos <= writePos /\ writePos <= Len(buffer)
    /\ Peek(ReadableBytes) = waiting
    /\ ret.is = ret.due
=============================================================================
