------------------------------ MODULE MCConfirm ------------------------------
(* Behaviours of a request, and others in which numbers are typed into the    *)
(* dialogues that lead to one.                                                *)
EXTENDS Confirm, Amounts

VARIABLE typing   \* whether this is a behaviour of the dialogues

\* "1", "1.5", "1.5k", "1.25M", "1M", "1.5B", "1.5m", "1.5Qa", "1^75", "1^76", "1.5^76"
\* and "1/^76", for tokens of 0, 6, 9 and 18 decimals.
MCTyped ==
  {[frac |-> f, suffix |-> 0] : f \in 0..1} \cup
  {[frac |-> 1, suffix |-> 1], [frac |-> 2, suffix |-> 2], [frac |-> 0, suffix |-> 2],
   [frac |-> 1, suffix |-> 3], [frac |-> 1, suffix |-> -1], [frac |-> 1, suffix |-> 5],
   [frac |-> 0, suffix |-> 25], [frac |-> 0, suffix |-> 26], [frac |-> 1, suffix |-> 26],
   [frac |-> 0, suffix |-> -26]}

AskInit ==
  /\ Init
  /\ typing \in BOOLEAN
  /\ AmountInit(IF typing THEN MaxTyped ELSE 0)

AskNext ==
  /\ UNCHANGED typing
  /\ \/ ~typing /\ Next /\ UNCHANGED amountVars
     \/ typing /\ AmountNext /\ UNCHANGED vars

AskSpec == AskInit /\ [][AskNext]_<<vars, amountVars, typing>>
==============================================================================
