--------------------------- MODULE MCIdGenerator ---------------------------
(* IdGenerator with the default options of IdGenOptions.                   *)
EXTENDS IdGenerator

MCOptionChoices == {[SeqBitLength |-> 8, MaxSeqNumber |-> 20, MinSeqNumber |-> 5]}
MCTicks == 1..3
=============================================================================
