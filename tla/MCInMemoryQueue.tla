--------------------------- MODULE MCInMemoryQueue ---------------------------
(***************************************************************************)
(* Instance of InMemoryQueue for TLC: each writer writes a UUID of its own.*)
(***************************************************************************)
EXTENDS InMemoryQueue

CONSTANTS w1, i1, i2

MCIdOf == [w \in Writers |-> IF w = w1 THEN i1 ELSE i2]
=============================================================================
