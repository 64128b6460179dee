-------------------------------- MODULE MCBus --------------------------------
(* An instance of Bus whose channels hold one message (Bus.cfg).  One of the  *)
(* two goroutines may hold a second channel inside its first.                 *)
EXTENDS Bus

CONSTANTS p1, p2, a, b

MCNesting == [p \in Procs |-> IF p = p1 THEN 2 ELSE 1]
MCInterests == {{a}, {a, b}}
=============================================================================
